---- MODULE Spec2Model ----
(***************************************************************************)
(* A model of the transcript-acquisition subsystem of yt-summarizer-api    *)
(* (src/src/transcripts.py) and of the retry wrapper that calls it         *)
(* (src/src/app.py).                                                       *)
(*                                                                         *)
(* Conventions.                                                            *)
(*  - A Python str is the sequence of its Unicode code points, so that     *)
(*    UTF-8 encoding, base64 and int() parsing are computed, not assumed.  *)
(*  - A Python/JSON value is a tagged record [t, v]: t is the type         *)
(*    ("null", "bool", "num", "str", "list", "obj") and v a sequence       *)
(*    carrying the content.  A dict is the sequence of its [k, v] items in *)
(*    insertion order, keys distinct.                                      *)
(*  - A raised exception is the tagged value [t |-> "exc", v |-> <<name>>].*)
(***************************************************************************)
EXTENDS Integers, Sequences, FiniteSets, TLC

VARIABLES
    \* -- parameter message builder (transcripts.py:77-89)
    message,            \* the dict handed to _get_base64_protobuf
    encoded,            \* its return value, JNull before the call
    \* -- one call of fetch_transcript (transcripts.py:259-294)
    fpc,                \* "off", "resolve", "request", "locate", "loop", "done"
    video_id,           \* the argument
    lang_info,          \* what _get_default_subtitle_language returned or raised
    queries,            \* the catalog calls issued so far
    language,           \* the language the protocol call is made with
    track_kind,         \* the track kind the protocol call is made with
    params,             \* the params of the POSTs sent, in order
    answer,             \* the platform's answer to the POST, as drawn (ResponseCases)
    response,           \* the answer as the code sees it: [status, body]
    initial_segments,   \* the list found at the end of the path
    idx,                \* the entry of initial_segments the loop is at
    output,             \* the segments appended so far
    outcome,            \* the list returned or the exception raised; JNull before
    \* -- fetch_transcript_with_retries and its cache (app.py:24-29, 58-129)
    retry,              \* per call: its arguments, locals, position and result
    api_response_cache, \* video id -> cached transcript, JNull without an entry
    \* -- one call of _encode_varint (transcripts.py:49-60)
    varint_value,       \* the argument
    varint_parts,       \* the bytes returned, JNull before the call
    \* -- one call of _get_default_subtitle_language (transcripts.py:95-147)
    catalog_state,      \* what the catalog API holds for the video (CatalogCases)
    resolved,           \* [result, queries] of the call, JNull before it
    \* -- one request to /summarize or /ask (app.py:137-205, 208-315)
    video_url,          \* the "url" of the JSON payload
    message_history,    \* the "history" of the JSON payload of /ask
    handler,            \* the handler's route, position, video_id and the status it answered
    events              \* the events the stream of /summarize has yielded, in order

protoVars == <<message, encoded>>
fetchVars == <<fpc, video_id, lang_info, queries, language, track_kind, params,
               answer, response, initial_segments, idx, output, outcome>>
retryVars == <<retry, api_response_cache>>
unitVars == <<varint_value, varint_parts, catalog_state, resolved>>
handlerVars == <<video_url, message_history, handler, events>>
vars == <<message, encoded, fpc, video_id, lang_info, queries, language, track_kind,
          params, answer, response, initial_segments, idx, output, outcome, retry,
          api_response_cache, varint_value, varint_parts, catalog_state, resolved,
          video_url, message_history, handler, events>>

----------------------------------------------------------------------------
(* Python values *)

JNull == [t |-> "null", v |-> <<>>]
JBool(b) == [t |-> "bool", v |-> <<b>>]
JNum(n) == [t |-> "num", v |-> <<n>>]
JStr(s) == [t |-> "str", v |-> s]
JList(xs) == [t |-> "list", v |-> xs]
JObj(items) == [t |-> "obj", v |-> items]
Raise(name) == [t |-> "exc", v |-> <<name>>]
IsExc(x) == x.t = "exc"

KV(key, value) == [k |-> key, v |-> value]

\* `key in d` for a dict d given as its item sequence
DictHas(items, key) == \E i \in 1..Len(items) : items[i].k = key

\* d[key] for a key that is present
DictGet(items, key) == items[CHOOSE i \in 1..Len(items) : items[i].k = key].v

----------------------------------------------------------------------------
(* Varint / length-delimited encoder, transcripts.py:49-74 *)

\* a plausible slip: `byte |= 0x80` forgotten
RECURSIVE EncodeVarintNoFlag(_)
EncodeVarintNoFlag(value) ==
    LET byte == value % 128
        rest == value \div 128
    IN  IF rest # 0
        THEN <<byte>> \o EncodeVarintNoFlag(rest)
        ELSE <<byte>>

RECURSIVE _encode_varint(_)
_encode_varint(value) ==
    LET byte == value % 128          \* value & 0x7F
        rest == value \div 128       \* value >>= 7
    IN  IF rest # 0
        THEN <<byte + 128>> \o _encode_varint(rest)   \* byte |= 0x80
        ELSE <<byte>>

\* str.encode("utf-8") of one code point (no surrogates in the model's alphabet)
Utf8Char(cp) ==
    IF cp < 128 THEN <<cp>>
    ELSE IF cp < 2048 THEN <<192 + (cp \div 64), 128 + (cp % 64)>>
    ELSE IF cp < 65536
         THEN <<224 + (cp \div 4096), 128 + ((cp \div 64) % 64), 128 + (cp % 64)>>
    ELSE <<240 + (cp \div 262144), 128 + ((cp \div 4096) % 64),
           128 + ((cp \div 64) % 64), 128 + (cp % 64)>>

RECURSIVE Utf8Encode(_)
Utf8Encode(s) ==
    IF s = <<>> THEN <<>> ELSE Utf8Char(Head(s)) \o Utf8Encode(Tail(s))

_encode_string_field(field_number, value) ==
    LET tag == field_number * 8 + 2                   \* (field_number << 3) | 2
        tag_bytes == _encode_varint(tag)
        value_bytes == Utf8Encode(value)
        length_bytes == _encode_varint(Len(value_bytes))
    IN  tag_bytes \o length_bytes \o value_bytes

\* the base64 alphabet, as code points: A-Z a-z 0-9 + /
B64Char(i) ==
    IF i < 26 THEN 65 + i
    ELSE IF i < 52 THEN 97 + (i - 26)
    ELSE IF i < 62 THEN 48 + (i - 52)
    ELSE IF i = 62 THEN 43 ELSE 47

\* base64.b64encode(buffer).decode("utf-8"): 3 bytes -> 4 characters, "=" padded
RECURSIVE b64encode(_)
b64encode(b) ==
    IF Len(b) = 0 THEN <<>>
    ELSE IF Len(b) = 1
         THEN <<B64Char(b[1] \div 4), B64Char((b[1] % 4) * 16), 61, 61>>
    ELSE IF Len(b) = 2
         THEN <<B64Char(b[1] \div 4), B64Char((b[1] % 4) * 16 + (b[2] \div 16)),
                B64Char((b[2] % 16) * 4), 61>>
    ELSE <<B64Char(b[1] \div 4), B64Char((b[1] % 4) * 16 + (b[2] \div 16)),
           B64Char((b[2] % 16) * 4 + (b[3] \div 64)), B64Char(b[3] % 64)>>
         \o b64encode(SubSeq(b, 4, Len(b)))

----------------------------------------------------------------------------
(* Parameter message builder, transcripts.py:77-89 *)

\* a plausible slip: `if message.get("paramN"):` drops the empty string too
FieldBytesTruthy(msg, key, field_number) ==
    IF DictHas(msg, key) /\ DictGet(msg, key).t # "null" /\ DictGet(msg, key).v # <<>>
    THEN _encode_string_field(field_number, DictGet(msg, key).v)
    ELSE <<>>

\* the bytes _get_base64_protobuf appends for one field (lines 84-85, 86-87)
FieldBytes(msg, key, field_number) ==
    IF DictHas(msg, key) /\ DictGet(msg, key).t # "null"
    THEN _encode_string_field(field_number, DictGet(msg, key).v)
    ELSE <<>>

_get_base64_protobuf(msg) ==
    LET buffer == FieldBytes(msg, "param1", 1) \o FieldBytes(msg, "param2", 2)
    IN  b64encode(buffer)

----------------------------------------------------------------------------
(* Python operations on parsed JSON used by transcripts.py:153-253 *)

\* bool(x)
Truthy(x) ==
    IF x.t = "null" THEN FALSE
    ELSE IF x.t = "bool" THEN x.v[1]
    ELSE IF x.t = "num" THEN x.v[1] # 0
    ELSE Len(x.v) > 0                       \* str, list, dict

\* x["key"]; an exception raised earlier in the expression propagates
GetItem(x, key) ==
    IF IsExc(x) THEN x
    ELSE IF x.t = "obj"
         THEN IF DictHas(x.v, key) THEN DictGet(x.v, key) ELSE Raise("KeyError")
    ELSE Raise("TypeError")                 \* list, str, None, number, bool

\* x[0]
GetIndex0(x) ==
    IF IsExc(x) THEN x
    ELSE IF x.t = "list"
         THEN IF Len(x.v) > 0 THEN x.v[1] ELSE Raise("IndexError")
    ELSE IF x.t = "str"
         THEN IF Len(x.v) > 0 THEN JStr(<<x.v[1]>>) ELSE Raise("IndexError")
    ELSE IF x.t = "obj" THEN Raise("KeyError")   \* JSON keys are strings, never 0
    ELSE Raise("TypeError")                 \* None, number, bool

\* x.get("key")
GetMethod(x, key) ==
    IF x.t = "obj"
    THEN IF DictHas(x.v, key) THEN DictGet(x.v, key) ELSE JNull
    ELSE Raise("AttributeError")            \* only dict has .get

\* "key" in x.  The model's strings and list elements never spell a key.
InOp(key, x) ==
    IF x.t = "obj" THEN JBool(DictHas(x.v, key))
    ELSE IF x.t \in {"str", "list"} THEN JBool(FALSE)
    ELSE Raise("TypeError")                 \* None, number, bool: not iterable

\* the items `for e in x` visits, or the TypeError of a non-iterable.  Iterating a
\* dict yields its keys: only their type (str) matters to the callers modelled here.
Iterate(x) ==
    IF x.t = "list" THEN x
    ELSE IF x.t = "str" THEN JList([i \in 1..Len(x.v) |-> JStr(<<x.v[i]>>)])
    ELSE IF x.t = "obj" THEN JList([i \in 1..Len(x.v) |-> JStr(<<107>>)])
    ELSE Raise("TypeError")

\* the code points int() reads as the digit 0: each starts a run of the ten
\* decimal digits of one script (Unicode category Nd)
DecimalZeros ==
    {48, 1632, 1776, 1984, 2406, 2534, 2662, 2790, 2918, 3046, 3174, 3302, 3430,
     3558, 3664, 3792, 3872, 4160, 4240, 6112, 6160, 6470, 6608, 6784, 6800, 6992,
     7088, 7232, 7248, 42528, 43216, 43264, 43472, 43504, 43600, 44016, 65296,
     66720, 68912, 69734, 69872, 69942, 70096, 70384, 70736, 70864, 71248, 71360,
     71472, 71904, 72016, 72784, 73040, 73120, 92768, 92864, 93008, 120782, 120792,
     120802, 120812, 120822, 123200, 123632, 125264, 130032}

\* the code points int() strips from both ends of a str
IntSpaces ==
    (9..13) \cup {32, 133, 160, 5760} \cup (8192..8202)
            \cup {8232, 8233, 8239, 8287, 12288}

IsDigit(c) == \E z \in DecimalZeros : c >= z /\ c <= z + 9

DigitOf(c) == c - (CHOOSE z \in DecimalZeros : c >= z /\ c <= z + 9)

\* the value of digits that may have single underscores between them
RECURSIVE DigitsValue(_, _)
DigitsValue(s, acc) ==
    IF s = <<>> THEN acc
    ELSE IF Head(s) = 95 THEN DigitsValue(Tail(s), acc)
    ELSE DigitsValue(Tail(s), acc * 10 + DigitOf(Head(s)))

\* s without the IntSpaces at its two ends
IntStrip(s) ==
    LET kept == {i \in 1..Len(s) : s[i] \notin IntSpaces}
    IN  IF kept = {} THEN <<>>
        ELSE SubSeq(s, CHOOSE i \in kept : \A j \in kept : i <= j,
                       CHOOSE i \in kept : \A j \in kept : i >= j)

\* digits, with single underscores only between two of them
IsDigitString(s) ==
    /\ Len(s) > 0
    /\ IsDigit(s[1]) /\ IsDigit(s[Len(s)])
    /\ \A i \in 1..Len(s) : IsDigit(s[i]) \/ s[i] = 95
    /\ \A i \in 1..(Len(s) - 1) : ~(s[i] = 95 /\ s[i + 1] = 95)

\* int(x): a number as is, a bool as 0/1, a str by its optional sign and decimal
\* digits, spaces at the ends stripped and single underscores between digits
\* allowed (ValueError otherwise), anything else a TypeError
PyInt(x) ==
    IF x.t = "num" THEN x
    ELSE IF x.t = "bool" THEN JNum(IF x.v[1] THEN 1 ELSE 0)
    ELSE IF x.t = "str"
         THEN LET bare == IntStrip(x.v)
                  signed == Len(bare) > 0 /\ bare[1] \in {43, 45}
                  digits == IF signed THEN Tail(bare) ELSE bare
              IN  IF IsDigitString(digits)
                  THEN JNum((IF signed /\ bare[1] = 45 THEN -1 ELSE 1)
                            * DigitsValue(digits, 0))
                  ELSE Raise("ValueError")
    ELSE Raise("TypeError")

\* n / 1000 for an int n: the exact decimal value (the float is its nearest double)
Div1000(n) ==
    LET a == IF n < 0 THEN -n ELSE n
    IN  [neg |-> n < 0, whole |-> a \div 1000, milli |-> a % 1000]

----------------------------------------------------------------------------
(* _extract_text, transcripts.py:153-161 *)

\* "".join(run["text"] for run in runs): join first draws every item from the
\* generator, so the exception of any run's subscript comes before the TypeError
\* of an item that is not a str
RECURSIVE JoinRuns(_, _)
JoinRuns(runs, acc) ==
    LET pieces == [i \in 1..Len(runs) |-> GetItem(runs[i], "text")]
        raised == {i \in 1..Len(runs) : IsExc(pieces[i])}
    IN  IF raised # {} THEN pieces[CHOOSE i \in raised : \A j \in raised : i <= j]
        ELSE IF \E i \in 1..Len(runs) : pieces[i].t # "str" THEN Raise("TypeError")
        ELSE IF runs = <<>> THEN JStr(acc)
        ELSE JoinRuns(Tail(runs), acc \o pieces[1].v)

_extract_text(item) ==
    LET hasSimple == InOp("simpleText", item)
    IN  IF IsExc(hasSimple) THEN hasSimple
        ELSE IF hasSimple.v[1] THEN DictGet(item.v, "simpleText")
        ELSE IF InOp("runs", item).v[1] /\ Truthy(DictGet(item.v, "runs"))
             THEN LET runs == Iterate(DictGet(item.v, "runs"))
                  IN  IF IsExc(runs) THEN runs ELSE JoinRuns(runs.v, <<>>)
        ELSE JStr(<<>>)

----------------------------------------------------------------------------
(* _get_subtitles_from_innertube, transcripts.py:164-253 *)

\* class TranscriptNotFoundError, transcripts.py:8-13: carries the video id
TranscriptNotFoundError(video) ==
    [t |-> "exc", v |-> <<"TranscriptNotFoundError", video>>]

ExcName(x) == x.v[1]

\* a plausible slip: the track kind sent as param1 for every kind of track
BuildParamsKindAlways(video, kind, lang) ==
    LET inner_message == <<KV("param2", JStr(lang)), KV("param1", JStr(kind))>>
        encoded_inner_message == _get_base64_protobuf(inner_message)
        outer_message == <<KV("param1", JStr(video)),
                           KV("param2", JStr(encoded_inner_message))>>
    IN  _get_base64_protobuf(outer_message)

\* lines 171-185: the inner (track) message, then the outer (request) message
BuildParams(video, kind, lang) ==
    LET inner_message ==
            IF kind = <<97, 115, 114>>                          \* "asr"
            THEN <<KV("param2", JStr(lang)), KV("param1", JStr(kind))>>
            ELSE <<KV("param2", JStr(lang))>>
        encoded_inner_message == _get_base64_protobuf(inner_message)
        outer_message == <<KV("param1", JStr(video)),
                           KV("param2", JStr(encoded_inner_message))>>
    IN  _get_base64_protobuf(outer_message)

\* lines 210-216: the subscript chain, evaluated left to right
InitialSegmentsPath(response_data) ==
    GetItem(GetItem(GetItem(GetItem(GetItem(GetItem(GetItem(GetItem(
        GetIndex0(GetItem(response_data, "actions")),
        "updateEngagementPanelAction"), "content"), "transcriptRenderer"),
        "content"), "transcriptSearchPanelRenderer"), "body"),
        "transcriptSegmentListRenderer"), "initialSegments")

\* a plausible slip: the emptiness test of lines 220-221 forgotten
LocateInitialSegmentsNoEmptyTest(video, response_data) ==
    LET found == InitialSegmentsPath(response_data)
    IN  IF IsExc(found)
        THEN IF ExcName(found) \in {"KeyError", "IndexError"}
             THEN TranscriptNotFoundError(video)
             ELSE found
        ELSE found

\* lines 209-221: the try/except around the chain and the emptiness test
LocateInitialSegments(video, response_data) ==
    LET found == InitialSegmentsPath(response_data)
    IN  IF IsExc(found)
        THEN IF ExcName(found) \in {"KeyError", "IndexError"}
             THEN TranscriptNotFoundError(video)
             ELSE found
        ELSE IF ~Truthy(found) THEN TranscriptNotFoundError(video)
        ELSE found

\* a plausible slip: only the header-less renderer is read
SelectLineNoHeader(segment) == GetMethod(segment, "transcriptSegmentRenderer")

\* lines 226-228: header `or` segment renderer
SelectLine(segment) ==
    LET header == GetMethod(segment, "transcriptSectionHeaderRenderer")
    IN  IF IsExc(header) THEN header
        ELSE IF Truthy(header) THEN header
        ELSE GetMethod(segment, "transcriptSegmentRenderer")

Skipped == [t |-> "skip", v |-> <<>>]
Emitted(seg) == [t |-> "seg", v |-> <<seg>>]

\* a plausible slip: the end offset reported as the duration
MakeSegmentEndAsDuration(text, start_ms, end_ms) ==
    LET s == PyInt(start_ms)
        e == PyInt(end_ms)
    IN  IF IsExc(text) THEN text
        ELSE IF IsExc(s) THEN s
        ELSE IF IsExc(e) THEN e
        ELSE Emitted([text |-> text,
                      start |-> Div1000(s.v[1]),
                      duration |-> Div1000(e.v[1])])

\* lines 245-251: the dict appended for a line; text, then start, then duration
MakeSegment(text, start_ms, end_ms) ==
    LET s == PyInt(start_ms)
        e == PyInt(end_ms)
    IN  IF IsExc(text) THEN text
        ELSE IF IsExc(s) THEN s
        ELSE IF IsExc(e) THEN e
        ELSE Emitted([text |-> text,
                      start |-> Div1000(s.v[1]),
                      duration |-> Div1000(e.v[1] - s.v[1])])

\* lines 224-251: one pass through the loop body: Skipped (continue), Emitted
\* (output.append) or the exception that leaves the loop
ProcessSegment(segment) ==
    LET line == SelectLine(segment)
    IN  IF IsExc(line) THEN line
        ELSE IF ~Truthy(line) THEN Skipped
        ELSE LET start_ms == GetMethod(line, "startMs")
             IN  IF IsExc(start_ms) THEN start_ms
                 ELSE LET end_ms == GetMethod(line, "endMs")
                          snippet == GetMethod(line, "snippet")
                      IN  IF start_ms.t = "null" \/ end_ms.t = "null"
                             \/ snippet.t = "null"
                          THEN Skipped
                          ELSE MakeSegment(_extract_text(snippet), start_ms, end_ms)

\* lines 223-253: the whole loop
RECURSIVE SegmentsLoop(_, _)
SegmentsLoop(segments, out) ==
    IF segments = <<>> THEN JList(out)
    ELSE LET r == ProcessSegment(Head(segments))
         IN  IF IsExc(r) THEN r
             ELSE SegmentsLoop(Tail(segments),
                               IF r.t = "seg" THEN Append(out, r.v[1]) ELSE out)

\* a plausible slip: a failed request answered with an empty body
ResponseDataSwallowing(http) ==
    IF http.status = "ok" THEN http.body ELSE JObj(<<>>)

\* lines 203-205: what requests.post / raise_for_status / response.json() give:
\* an exception, or the parsed body
ResponseData(http) ==
    IF http.status = "ok" THEN http.body ELSE Raise(http.status)

\* lines 203-253, after the request was built: the list returned or the exception
ParseResponse(video, http) ==
    LET response_data == ResponseData(http)
    IN  IF IsExc(response_data) THEN response_data
        ELSE LET segments == LocateInitialSegments(video, response_data)
             IN  IF IsExc(segments) THEN segments
                 ELSE LET items == Iterate(segments)
                      IN  IF IsExc(items) THEN items
                          ELSE SegmentsLoop(items.v, <<>>)

----------------------------------------------------------------------------
(* _get_default_subtitle_language, transcripts.py:95-147 *)

EN == <<101, 110>>                                   \* "en"
RU == <<114, 117>>                                   \* "ru"
ASR == <<97, 115, 114>>                              \* "asr"
STANDARD == <<115, 116, 97, 110, 100, 97, 114, 100>> \* "standard"

\* a plausible slip: the default descriptor returned where the code raises
ResolveErrorAsDefault(what) ==
    JObj(<<KV("trackKind", JStr(STANDARD)), KV("language", JStr(EN))>>)

\* raise Exception(<message>), lines 101, 112, 115, 129
ResolveError(what) == [t |-> "exc", v |-> <<"Exception", what>>]

\* youtube_client.videos().list(part="snippet", id=video_id).execute(), lines 107-109:
\* the catalog's answer, an HttpError or {"items": [{"snippet": {...}}, ...]}
VideosList(catalog) ==
    IF catalog.videosExc THEN Raise("HttpError")
    ELSE LET snippet == JObj(
                 (IF catalog.dl = <<>> THEN <<>>
                  ELSE <<KV("defaultLanguage", JStr(catalog.dl))>>)
                 \o (IF catalog.dal = <<>> THEN <<>>
                     ELSE <<KV("defaultAudioLanguage", JStr(catalog.dal))>>))
         IN  JObj(<<KV("items",
                 JList([i \in 1..catalog.nVideos |-> JObj(<<KV("snippet", snippet)>>)]))>>)

\* youtube_client.captions().list(part="snippet", videoId=video_id).execute(),
\* lines 124-126
CaptionsList(catalog) ==
    IF catalog.captionsExc THEN Raise("HttpError")
    ELSE JObj(<<KV("items",
            JList([i \in 1..Len(catalog.tracks) |->
                JObj(<<KV("snippet", JObj(<<
                    KV("language", JStr(catalog.tracks[i].language)),
                    KV("trackKind", JStr(catalog.tracks[i].trackKind))>>))>>)]))>>)

\* a plausible slip: the loop without its `break` keeps the last match
FindSubtitleLastMatch(subs, preferred_language) ==
    LET matches == {i \in 1..Len(subs) :
                      GetItem(GetItem(subs[i], "snippet"), "language")
                        = preferred_language}
    IN  IF Truthy(preferred_language) /\ matches # {}
        THEN subs[CHOOSE i \in matches : \A j \in matches : i >= j]
        ELSE subs[1]

\* lines 131-142: the first track in the preferred language, else the first track
FindSubtitle(subs, preferred_language) ==
    LET matches == {i \in 1..Len(subs) :
                      GetItem(GetItem(subs[i], "snippet"), "language")
                        = preferred_language}
    IN  IF Truthy(preferred_language) /\ matches # {}
        THEN subs[CHOOSE i \in matches : \A j \in matches : i <= j]
        ELSE subs[1]

\* the function: [result, queries], result the descriptor dict or the exception,
\* queries the catalog calls issued on the way
_get_default_subtitle_language(catalog) ==
    IF ~catalog.client
    THEN [result |-> ResolveError("client not initialized"), queries |-> <<>>]
    ELSE LET videos_response == VideosList(catalog)
             q1 == <<"videos.list">>
         IN
         IF IsExc(videos_response) THEN [result |-> videos_response, queries |-> q1]
         ELSE IF ~Truthy(GetMethod(videos_response, "items"))
              THEN [result |-> ResolveError("no video found"), queries |-> q1]
         ELSE IF Len(GetItem(videos_response, "items").v) # 1
              THEN [result |-> ResolveError("multiple videos found"), queries |-> q1]
         ELSE
         LET video_snippet == GetItem(GetIndex0(GetItem(videos_response, "items")),
                                      "snippet")
             dl == GetMethod(video_snippet, "defaultLanguage")
             preferred_language ==
                 IF Truthy(dl) THEN dl
                 ELSE GetMethod(video_snippet, "defaultAudioLanguage")
             subtitles_response == CaptionsList(catalog)
             q2 == <<"videos.list", "captions.list">>
         IN
         IF IsExc(subtitles_response)
         THEN [result |-> subtitles_response, queries |-> q2]
         ELSE IF ~Truthy(GetMethod(subtitles_response, "items"))
              THEN [result |-> ResolveError("no subtitles found"), queries |-> q2]
         ELSE
         LET found_subtitle == FindSubtitle(GetItem(subtitles_response, "items").v,
                                            preferred_language)
             kind == GetItem(GetItem(found_subtitle, "snippet"), "trackKind")
             lang == GetItem(GetItem(found_subtitle, "snippet"), "language")
         IN  [result |-> JObj(<<KV("trackKind", kind), KV("language", lang)>>),
              queries |-> q2]

----------------------------------------------------------------------------
(* fetch_transcript, transcripts.py:259-294 *)

\* a plausible slip: the resolver's failure re-raised instead of absorbed
TrackForReraising(info) ==
    IF IsExc(info) THEN info
    ELSE JObj(<<KV("language", GetItem(info, "language")),
                KV("trackKind", GetItem(info, "trackKind"))>>)

\* lines 276-290: the descriptor the protocol call is made with
TrackFor(info) ==
    IF IsExc(info)                      \* except Exception
    THEN JObj(<<KV("language", JStr(EN)), KV("trackKind", JStr(STANDARD))>>)
    ELSE JObj(<<KV("language", GetItem(info, "language")),
                KV("trackKind", GetItem(info, "trackKind"))>>)

\* the whole function on one catalog state and one HTTP answer
fetch_transcript(video, catalog, http) ==
    LET track == TrackFor(_get_default_subtitle_language(catalog).result)
    IN  IF IsExc(track) THEN track ELSE ParseResponse(video, http)

----------------------------------------------------------------------------
(* The inputs: what the catalog API and the transcript endpoint may answer *)

MaxTracks == 2          \* caption tracks listed for a video
MaxSegments == 2        \* entries of initialSegments
MaxFieldLen == 2        \* characters of a free-form protobuf field value

VideoIds == {<<97, 98, 99, 49, 50, 51>>, <<120>>}        \* "abc123", "x"

LangOpts == {<<>>, EN, RU}                               \* <<>>: the field is absent

Tracks == [language : {EN, RU}, trackKind : {STANDARD, ASR}]

TrackSeqs == UNION {[1..n -> Tracks] : n \in 0..MaxTracks}

Catalog(client, videosExc, nVideos, dl, dal, captionsExc, tracks) ==
    [client |-> client, videosExc |-> videosExc, nVideos |-> nVideos, dl |-> dl,
     dal |-> dal, captionsExc |-> captionsExc, tracks |-> tracks]

CatalogCases ==
    {Catalog(FALSE, FALSE, 1, <<>>, <<>>, FALSE, <<>>),      \* no API key
     Catalog(TRUE, TRUE, 1, <<>>, <<>>, FALSE, <<>>),        \* videos.list fails
     Catalog(TRUE, FALSE, 0, <<>>, <<>>, FALSE, <<>>),       \* unknown video
     Catalog(TRUE, FALSE, 2, <<>>, <<>>, FALSE, <<>>)}       \* ambiguous video
    \cup {Catalog(TRUE, FALSE, 1, dl, dal, TRUE, <<>>) :     \* captions.list fails
            dl \in LangOpts, dal \in LangOpts}
    \cup {Catalog(TRUE, FALSE, 1, c[1], c[2], FALSE, c[3]) :
            c \in LangOpts \X LangOpts \X TrackSeqs}

\* the keys of the path of transcripts.py:210-216 ("0" stands for the index [0])
PathSteps ==
    <<"actions", "0", "updateEngagementPanelAction", "content", "transcriptRenderer",
      "content", "transcriptSearchPanelRenderer", "body",
      "transcriptSegmentListRenderer", "initialSegments">>

WrongKinds ==
    {"null", "num", "bool", "str", "emptyStr", "list", "emptyList", "obj", "emptyObj"}

WrongValue(kind) ==
    CASE kind = "null" -> JNull
      [] kind = "num" -> JNum(5)
      [] kind = "bool" -> JBool(TRUE)
      [] kind = "str" -> JStr(<<120>>)
      [] kind = "emptyStr" -> JStr(<<>>)
      [] kind = "list" -> JList(<<JNum(7)>>)
      [] kind = "emptyList" -> JList(<<>>)
      [] kind = "obj" -> JObj(<<KV("other", JNull)>>)
      [] kind = "emptyObj" -> JObj(<<>>)

Absent == [t |-> "absent", v |-> <<>>]
IsPresent(item) == item.v.t # "absent"
Fields(items) == JObj(SelectSeq(items, IsPresent))

S1500 == JStr(<<49, 53, 48, 48>>)                    \* "1500"
S4200 == JStr(<<52, 50, 48, 48>>)                    \* "4200"
SimpleText(s) == JObj(<<KV("simpleText", JStr(s))>>)
Run(s) == JObj(<<KV("text", JStr(s))>>)

ContentLine(start, end, snippet) ==
    JObj(<<KV("transcriptSegmentRenderer",
              Fields(<<KV("startMs", start), KV("endMs", end),
                       KV("snippet", snippet)>>))>>)

HeaderLine(start, end, snippet) ==
    JObj(<<KV("transcriptSectionHeaderRenderer",
              Fields(<<KV("startMs", start), KV("endMs", end),
                       KV("snippet", snippet)>>))>>)

\* the kinds of entry of initialSegments that transcripts.py:224-251 tells apart
SegmentCases ==
    << ContentLine(S1500, S4200, SimpleText(<<97>>)),            \* 1 plain text line
       ContentLine(S4200, JNum(6000),
                   JObj(<<KV("runs", JList(<<Run(<<98>>), Run(<<99>>)>>))>>)),
                                                                 \* 2 line of two runs
       HeaderLine(JNum(0), S1500, SimpleText(<<104>>)),          \* 3 header, titled
       HeaderLine(JNum(0), S1500, Absent),                       \* 4 header, no snippet
       ContentLine(Absent, S4200, SimpleText(<<97>>)),           \* 5 no startMs
       ContentLine(S1500, Absent, SimpleText(<<97>>)),           \* 6 no endMs
       ContentLine(S1500, S4200, Absent),                        \* 7 no snippet
       ContentLine(S1500, S4200,
                   JObj(<<KV("runs", JList(<<Run(<<98>>), JObj(<<>>)>>))>>)),
                                                                 \* 8 a run without text
       ContentLine(JStr(<<120>>), S4200, SimpleText(<<97>>)),    \* 9 startMs "x"
       ContentLine(S4200, S1500, SimpleText(<<97>>)),            \* 10 end before start
       ContentLine(JStr(<<45, 53, 48, 48>>), S1500, SimpleText(<<97>>)),
                                                                 \* 11 startMs "-500"
       JObj(<<>>),                                               \* 12 placeholder
       ContentLine(S1500, S4200, JObj(<<>>)),                    \* 13 empty text node
       HeaderLine(JNum(0), S1500,
                  JObj(<<KV("runs", JList(<<JObj(<<>>)>>))>>)),
                                                                 \* 14 header, a run without text
       ContentLine(S1500, S4200, JObj(<<KV("simpleText", JNum(5))>>)),
                                                                 \* 15 a text that is no str
       ContentLine(JStr(<<32, 49, 95, 53, 48, 48>>),
                   JStr(<<1636, 1634, 1632, 1632, 10>>), SimpleText(<<97>>)),
                                            \* 16 startMs " 1_500", endMs "\u0664\u0662\u0660\u0660\n"
       ContentLine(S1500, S4200,
                   JObj(<<KV("runs", JList(<<JObj(<<KV("text", JNum(5))>>),
                                             JObj(<<>>)>>))>>)) >>
                                            \* 17 a run whose text is no str, then one without

SegmentChoices == UNION {[1..n -> 1..Len(SegmentCases)] : n \in 0..MaxSegments}

\* the body whose path is intact down to depth wrongAt, where `wrong` stands;
\* wrongAt = Len(PathSteps) + 1 is the intact path ending in the list of segments
Body(wrongAt, wrong, segs) ==
    LET RECURSIVE Node(_)
        Node(d) ==
            IF d = wrongAt THEN WrongValue(wrong)
            ELSE IF d = Len(PathSteps)
                 THEN JList([i \in 1..Len(segs) |-> SegmentCases[segs[i]]])
            ELSE IF PathSteps[d + 1] = "0" THEN JList(<<Node(d + 1)>>)
            ELSE JObj(<<KV(PathSteps[d + 1], Node(d + 1))>>)
    IN  Node(0)

HttpErrors == {"ConnectionError", "HTTPError", "JSONDecodeError"}

ResponseCases ==
    {[status |-> e, wrongAt |-> 0, wrong |-> "null", segs |-> <<>>] : e \in HttpErrors}
    \cup {[status |-> "ok", wrongAt |-> d, wrong |-> k, segs |-> <<>>] :
            d \in 0..Len(PathSteps), k \in WrongKinds}
    \cup {[status |-> "ok", wrongAt |-> Len(PathSteps) + 1, wrong |-> "null", segs |-> q] :
            q \in SegmentChoices}

\* what the POST of transcripts.py:203-205 yields for one answer of the platform
Http(case) ==
    [status |-> case.status,
     body |-> IF case.status = "ok" THEN Body(case.wrongAt, case.wrong, case.segs)
              ELSE JNull]

----------------------------------------------------------------------------
(* The machines at rest: each specification runs one of them *)

NoResponse == [status |-> "none", body |-> JNull]
NoAnswer == [status |-> "none", wrongAt |-> 0, wrong |-> "null", segs |-> <<>>]

ProtoOff == message = <<>> /\ encoded = JNull

FetchBlank ==
    /\ lang_info = JNull /\ queries = <<>> /\ language = <<>> /\ track_kind = <<>>
    /\ params = <<>> /\ answer = NoAnswer /\ response = NoResponse
    /\ initial_segments = JNull
    /\ idx = 0 /\ output = <<>> /\ outcome = JNull

FetchOff == fpc = "off" /\ video_id = <<>> /\ FetchBlank

RetryOff == retry = <<>> /\ api_response_cache = [v \in VideoIds |-> JNull]

NoCatalog == Catalog(FALSE, FALSE, 0, <<>>, <<>>, FALSE, <<>>)

UnitOff ==
    /\ varint_value = 0 /\ varint_parts = JNull
    /\ catalog_state = NoCatalog /\ resolved = JNull

NoHandler == [route |-> "none", pc |-> "off", video_id |-> <<>>, status_code |-> 0,
              transcript_text |-> <<>>]

HandlerOff ==
    /\ video_url = JNull /\ message_history = JNull
    /\ handler = NoHandler /\ events = <<>>

----------------------------------------------------------------------------
(* SpecProto: _get_base64_protobuf on every small message *)

FieldChars == {120, 233}                              \* "x", "e-acute" (2 UTF-8 bytes)

FieldStrings == UNION {[1..n -> FieldChars] : n \in 0..MaxFieldLen} \cup {EN, ASR}

FieldValues == {JNull} \cup {JStr(f) : f \in FieldStrings}

\* every dict over the keys param1, param2, in both insertion orders
Messages ==
    {<<>>}
    \cup {<<KV(k, a)>> : k \in {"param1", "param2"}, a \in FieldValues}
    \cup {<<KV(k[1], a), KV(k[2], b)>> :
            k \in {<<"param1", "param2">>, <<"param2", "param1">>},
            a \in FieldValues, b \in FieldValues}

ProtoInit ==
    /\ message \in Messages
    /\ encoded = JNull
    /\ FetchOff /\ RetryOff /\ UnitOff /\ HandlerOff

Encode ==
    /\ encoded = JNull
    /\ encoded' = JStr(_get_base64_protobuf(message))
    /\ UNCHANGED <<message, fetchVars, retryVars, unitVars, handlerVars>>

ProtoNext == Encode

SpecProto == ProtoInit /\ [][ProtoNext]_vars

----------------------------------------------------------------------------
(* SpecVarint: _encode_varint on every small value and on the values around
   the lengths of three, four and five bytes *)

MaxVarint == 300        \* the values 0..MaxVarint are all encoded

VarintEdges == {16383, 16384, 2097151, 2097152, 268435455, 268435456, 2147483647}

VarintValues == (0..MaxVarint) \cup VarintEdges

\* bytes(parts)
Bytes(b) == [t |-> "bytes", v |-> b]

VarintInit ==
    /\ varint_value \in VarintValues
    /\ varint_parts = JNull
    /\ catalog_state = NoCatalog /\ resolved = JNull
    /\ ProtoOff /\ FetchOff /\ RetryOff /\ HandlerOff

EncodeVarint ==
    /\ varint_parts = JNull
    /\ varint_parts' = Bytes(_encode_varint(varint_value))
    /\ UNCHANGED <<varint_value, catalog_state, resolved, protoVars, fetchVars,
                   retryVars, handlerVars>>

VarintNext == EncodeVarint

SpecVarint == VarintInit /\ [][VarintNext]_vars

----------------------------------------------------------------------------
(* SpecResolve: _get_default_subtitle_language on every catalog state *)

ResolveInit ==
    /\ catalog_state \in CatalogCases
    /\ resolved = JNull
    /\ varint_value = 0 /\ varint_parts = JNull
    /\ ProtoOff /\ FetchOff /\ RetryOff /\ HandlerOff

\* [t, v, queries]: the descriptor or the exception, and the catalog calls issued
Resolution(r) == [t |-> r.result.t, v |-> r.result.v, queries |-> r.queries]

ResolveCall ==
    /\ resolved = JNull
    /\ resolved' = Resolution(_get_default_subtitle_language(catalog_state))
    /\ UNCHANGED <<catalog_state, varint_value, varint_parts, protoVars, fetchVars,
                   retryVars, handlerVars>>

ResolveNext == ResolveCall

SpecResolve == ResolveInit /\ [][ResolveNext]_vars

----------------------------------------------------------------------------
(* SpecFetch: one call of fetch_transcript, step by step *)

FetchInit ==
    /\ fpc = "resolve"
    /\ video_id \in VideoIds
    /\ FetchBlank
    /\ ProtoOff /\ RetryOff /\ UnitOff /\ HandlerOff

\* lines 276-290: the resolver runs against the catalog; its failure is absorbed
Resolve ==
    /\ fpc = "resolve"
    /\ \E catalog \in CatalogCases :
          LET r == _get_default_subtitle_language(catalog)
              track == TrackFor(r.result)
          IN  /\ lang_info' = r.result
              /\ queries' = r.queries
              /\ IF IsExc(track)
                 THEN /\ outcome' = track /\ fpc' = "done"
                      /\ UNCHANGED <<language, track_kind>>
                 ELSE /\ language' = GetItem(track, "language").v
                      /\ track_kind' = GetItem(track, "trackKind").v
                      /\ fpc' = "request"
                      /\ UNCHANGED outcome
    /\ UNCHANGED <<video_id, params, answer, response, initial_segments, idx, output,
                   protoVars, retryVars,
                   unitVars, handlerVars>>

\* lines 170-205: the params are built, the POST sent, the answer received
SendRequest ==
    /\ fpc = "request"
    /\ params' = Append(params, BuildParams(video_id, track_kind, language))
    /\ \E case \in ResponseCases :
          /\ answer' = case
          /\ response' = Http(case)
          /\ IF IsExc(ResponseData(Http(case)))
             THEN outcome' = ResponseData(Http(case)) /\ fpc' = "done"
             ELSE fpc' = "locate" /\ UNCHANGED outcome
    /\ UNCHANGED <<video_id, lang_info, queries, language, track_kind,
                   initial_segments, idx, output, protoVars, retryVars,
                   unitVars, handlerVars>>

\* lines 209-224: the path is descended and the loop entered
Locate ==
    /\ fpc = "locate"
    /\ LET found == LocateInitialSegments(video_id, ResponseData(response))
       IN  IF IsExc(found)
           THEN /\ outcome' = found /\ fpc' = "done"
                /\ UNCHANGED <<initial_segments, idx>>
           ELSE /\ initial_segments' = found
                /\ IF IsExc(Iterate(found))
                   THEN outcome' = Iterate(found) /\ fpc' = "done" /\ UNCHANGED idx
                   ELSE fpc' = "loop" /\ idx' = 1 /\ UNCHANGED outcome
    /\ UNCHANGED <<video_id, lang_info, queries, language, track_kind, params,
                   answer, response, output, protoVars, retryVars,
                   unitVars, handlerVars>>

\* lines 224-251: one entry of initial_segments
LoopStep ==
    /\ fpc = "loop"
    /\ idx <= Len(Iterate(initial_segments).v)
    /\ LET r == ProcessSegment(Iterate(initial_segments).v[idx])
       IN  IF IsExc(r)
           THEN outcome' = r /\ fpc' = "done" /\ UNCHANGED <<idx, output>>
           ELSE /\ idx' = idx + 1
                /\ output' = IF r.t = "seg" THEN Append(output, r.v[1]) ELSE output
                /\ UNCHANGED <<fpc, outcome>>
    /\ UNCHANGED <<video_id, lang_info, queries, language, track_kind, params,
                   answer, response, initial_segments, protoVars, retryVars,
                   unitVars, handlerVars>>

\* line 253
Return ==
    /\ fpc = "loop"
    /\ idx > Len(Iterate(initial_segments).v)
    /\ outcome' = JList(output)
    /\ fpc' = "done"
    /\ UNCHANGED <<video_id, lang_info, queries, language, track_kind, params,
                   answer, response, initial_segments, idx, output, protoVars,
                   retryVars, unitVars, handlerVars>>

FetchNext == Resolve \/ SendRequest \/ Locate \/ LoopStep \/ Return

SpecFetch == FetchInit /\ [][FetchNext]_vars

----------------------------------------------------------------------------
(* Spec: fetch_transcript_with_retries and its cache, app.py:24-29, 58-129 *)

MaxAttempts == 3        \* largest total_attempts a call is made with
MaxDelay == 2           \* largest initial_delay_seconds a call is made with

\* the calls of the wrapper in flight
Callers == {1}

\* a plausible slip: total_attempts used unclamped
NoClamp(a, b) == b

\* python's max(a, b), app.py:79
Max(a, b) == IF a >= b THEN a ELSE b

\* the world an attempt may find: the catalog with or without a client, and the
\* platform answering with a transcript, with none, or failing
AttemptCatalogs ==
    {Catalog(FALSE, FALSE, 1, <<>>, <<>>, FALSE, <<>>),
     Catalog(TRUE, FALSE, 1, EN, <<>>, FALSE, <<[language |-> EN, trackKind |-> ASR]>>)}

AttemptResponses ==
    {[status |-> "ok", wrongAt |-> Len(PathSteps) + 1, wrong |-> "null", segs |-> <<1>>],
     [status |-> "ok", wrongAt |-> Len(PathSteps) + 1, wrong |-> "null", segs |-> <<2>>],
     [status |-> "ok", wrongAt |-> Len(PathSteps) + 1, wrong |-> "null", segs |-> <<8>>],
     [status |-> "ok", wrongAt |-> Len(PathSteps) + 1, wrong |-> "null", segs |-> <<15>>],
     [status |-> "ok", wrongAt |-> 0, wrong |-> "emptyObj", segs |-> <<>>],
     [status |-> "ok", wrongAt |-> 1, wrong |-> "null", segs |-> <<>>],
     [status |-> "HTTPError", wrongAt |-> 0, wrong |-> "null", segs |-> <<>>]}

AttemptEnvs == [catalog : AttemptCatalogs, http : AttemptResponses]

\* the SSE error events of app.py:101, 114, 128
NoEvent == [event |-> "none", status_code |-> 0, error |-> "none"]
ErrorEvent(code, what) == [event |-> "error", status_code |-> code, error |-> what]

\* the tuple the wrapper returns, app.py:95, 102, 115, 129
Returned(transcript, event) == [transcript |-> transcript, error_event |-> event]
NotReturned == Returned(JNull, NoEvent)

\* a plausible slip: the cache filled with whatever the call ended in
FetchCachedKeepingErrors(cache, video, env) ==
    IF cache[video] # JNull
    THEN [value |-> cache[video], cache |-> cache, called |-> FALSE]
    ELSE LET r == fetch_transcript(video, env.catalog, Http(env.http))
         IN  [value |-> r, cache |-> [cache EXCEPT ![video] = r], called |-> TRUE]

\* @cached fetch_cached_transcript, app.py:58-60: a live entry is returned without a
\* call; otherwise fetch_transcript is called and only a returned value is stored
fetch_cached_transcript(cache, video, env) ==
    IF cache[video] # JNull
    THEN [value |-> cache[video], cache |-> cache, called |-> FALSE]
    ELSE LET r == fetch_transcript(video, env.catalog, Http(env.http))
         IN  [value |-> r,
              cache |-> IF IsExc(r) THEN cache ELSE [cache EXCEPT ![video] = r],
              called |-> TRUE]

\* the locals of a call that has not started
NewCall(video, total, delay) ==
    [pc |-> "idle", video_id |-> video, total_attempts |-> total,
     initial_delay_seconds |-> delay, num_attempts_to_make |-> 0,
     attempt_num_zero_based |-> 0,
     attempts |-> 0,            \* calls of fetch_cached_transcript made
     fetched |-> 0,             \* of these, the calls that reached fetch_transcript
     failed |-> 0,              \* of these, the calls that raised but not not-found
     last_raised |-> "none",    \* what the latest attempt raised
     slept |-> <<>>,            \* the delays slept, in order
     result |-> NotReturned]

CallArgs == VideoIds \X (-1..MaxAttempts) \X (1..MaxDelay)

\* a transcript an earlier request may have left in the cache
EarlierTranscript ==
    fetch_transcript(<<120>>, Catalog(FALSE, FALSE, 1, <<>>, <<>>, FALSE, <<>>),
        Http([status |-> "ok", wrongAt |-> Len(PathSteps) + 1, wrong |-> "null",
              segs |-> <<1>>]))

RetryInit ==
    /\ \E args \in [Callers -> CallArgs] :
          retry = [c \in Callers |-> NewCall(args[c][1], args[c][2], args[c][3])]
    /\ \E live \in SUBSET VideoIds :
          api_response_cache =
              [v \in VideoIds |-> IF v \in live THEN EarlierTranscript ELSE JNull]
    /\ ProtoOff /\ FetchOff /\ UnitOff /\ HandlerOff

\* the loop is left without a return, app.py:125-129
FallThrough(call) ==
    [call EXCEPT !.pc = "done",
                 !.result = Returned(JNull, ErrorEvent(500, "unknown error"))]

\* the step of `for ... in range(num_attempts_to_make)` to the iteration `next`
Iteration(call, next) ==
    IF next < call.num_attempts_to_make
    THEN [call EXCEPT !.pc = "loop", !.attempt_num_zero_based = next]
    ELSE FallThrough(call)

\* app.py:79-81: the call starts
Enter(c) ==
    /\ retry[c].pc = "idle"
    /\ retry' = [retry EXCEPT ![c] =
          Iteration([retry[c] EXCEPT
                       !.num_attempts_to_make = Max(1, retry[c].total_attempts)], 0)]
    /\ UNCHANGED <<api_response_cache, protoVars, fetchVars, unitVars, handlerVars>>

\* a plausible slip: a not-found outcome handled like any other failure
AfterAttemptRetryingNotFound(call, value) ==
    IF ~IsExc(value)
    THEN [call EXCEPT !.pc = "done", !.result = Returned(value, NoEvent)]
    ELSE IF call.attempt_num_zero_based = call.num_attempts_to_make - 1
    THEN [call EXCEPT !.pc = "done",
                      !.result = Returned(JNull, ErrorEvent(500, "retries exhausted"))]
    ELSE [call EXCEPT !.pc = "sleep",
                      !.slept = Append(@, call.initial_delay_seconds)]

\* a plausible slip: the last-attempt test compares with num_attempts_to_make
AfterAttemptOffByOne(call, value) ==
    IF ~IsExc(value)
    THEN [call EXCEPT !.pc = "done", !.result = Returned(value, NoEvent)]
    ELSE IF ExcName(value) = "TranscriptNotFoundError"
    THEN [call EXCEPT !.pc = "done",
                      !.result = Returned(JNull, ErrorEvent(404, "not found"))]
    ELSE IF call.attempt_num_zero_based = call.num_attempts_to_make
    THEN [call EXCEPT !.pc = "done",
                      !.result = Returned(JNull, ErrorEvent(500, "retries exhausted"))]
    ELSE [call EXCEPT !.pc = "sleep",
                      !.slept = Append(@, call.initial_delay_seconds)]

\* a plausible slip: the backoff the comment of app.py:117-120 describes
AfterAttemptDoubling(call, value) ==
    IF ~IsExc(value)
    THEN [call EXCEPT !.pc = "done", !.result = Returned(value, NoEvent)]
    ELSE IF ExcName(value) = "TranscriptNotFoundError"
    THEN [call EXCEPT !.pc = "done",
                      !.result = Returned(JNull, ErrorEvent(404, "not found"))]
    ELSE IF call.attempt_num_zero_based = call.num_attempts_to_make - 1
    THEN [call EXCEPT !.pc = "done",
                      !.result = Returned(JNull, ErrorEvent(500, "retries exhausted"))]
    ELSE [call EXCEPT !.pc = "sleep",
                      !.slept = Append(@, call.initial_delay_seconds
                                            * 2 ^ call.attempt_num_zero_based)]

\* app.py:92-123: what the iteration does with the value or exception of the attempt
AfterAttempt(call, value) ==
    IF ~IsExc(value)
    THEN [call EXCEPT !.pc = "done", !.result = Returned(value, NoEvent)]
    ELSE IF ExcName(value) = "TranscriptNotFoundError"
    THEN [call EXCEPT !.pc = "done",
                      !.result = Returned(JNull, ErrorEvent(404, "not found"))]
    ELSE IF call.attempt_num_zero_based = call.num_attempts_to_make - 1
    THEN [call EXCEPT !.pc = "done",
                      !.result = Returned(JNull, ErrorEvent(500, "retries exhausted"))]
    ELSE [call EXCEPT !.pc = "sleep",
                      !.slept = Append(@, call.initial_delay_seconds)]

\* app.py:82-123: one iteration, up to its return or to the await of the sleep
Attempt(c) ==
    /\ retry[c].pc = "loop"
    /\ \E env \in AttemptEnvs :
       \E got \in {fetch_cached_transcript(api_response_cache, retry[c].video_id, env)} :
          LET counted == [retry[c] EXCEPT
                            !.attempts = @ + 1,
                            !.fetched = IF got.called THEN @ + 1 ELSE @,
                            !.failed = IF IsExc(got.value)
                                          /\ ExcName(got.value) # "TranscriptNotFoundError"
                                       THEN @ + 1 ELSE @,
                            !.last_raised = IF IsExc(got.value)
                                            THEN ExcName(got.value) ELSE "none"]
          IN  /\ retry' = [retry EXCEPT ![c] = AfterAttempt(counted, got.value)]
              /\ api_response_cache' = got.cache
    /\ UNCHANGED <<protoVars, fetchVars, unitVars, handlerVars>>

\* app.py:123, 81: the sleep ends and the loop goes on
Wake(c) ==
    /\ retry[c].pc = "sleep"
    /\ retry' = [retry EXCEPT ![c] =
          Iteration(retry[c], retry[c].attempt_num_zero_based + 1)]
    /\ UNCHANGED <<api_response_cache, protoVars, fetchVars, unitVars, handlerVars>>

\* app.py:25, 29: an entry outlives its hour and is dropped
Expire(v) ==
    /\ api_response_cache[v] # JNull
    /\ api_response_cache' = [api_response_cache EXCEPT ![v] = JNull]
    /\ UNCHANGED <<retry, protoVars, fetchVars, unitVars, handlerVars>>

Next ==
    \/ \E c \in DOMAIN retry : Enter(c)
    \/ \E c \in DOMAIN retry : Attempt(c)
    \/ \E c \in DOMAIN retry : Wake(c)
    \/ \E v \in VideoIds : Expire(v)

Init == RetryInit

Spec == Init /\ [][Next]_vars

----------------------------------------------------------------------------
(* SpecConcurrent: two calls of fetch_transcript_with_retries on one event loop.
   A call gives up control only at `await asyncio.sleep` (app.py:123), so the
   steps Enter, Attempt and Wake of the two calls interleave as wholes. *)

ConcurrentCallers == {1, 2}

ConcurrentArgs == VideoIds \X {MaxAttempts - 1} \X {1}

ConcurrentInit ==
    /\ \E args \in [ConcurrentCallers -> ConcurrentArgs] :
          retry = [c \in ConcurrentCallers |->
                     NewCall(args[c][1], args[c][2], args[c][3])]
    /\ api_response_cache = [v \in VideoIds |-> JNull]
    /\ ProtoOff /\ FetchOff /\ UnitOff /\ HandlerOff

SpecConcurrent == ConcurrentInit /\ [][Next]_vars

----------------------------------------------------------------------------
(* SpecSummarize: one request to /summarize, app.py:137-205, and the event
   stream of its generator *)

\* str.find(sep): the first index where sep stands in s, 0 when it does not
IndexOf(s, sep) ==
    LET at == {i \in 1..(Len(s) - Len(sep) + 1) : SubSeq(s, i, i + Len(sep) - 1) = sep}
    IN  IF at = {} THEN 0 ELSE CHOOSE i \in at : \A j \in at : i <= j

\* str.split(sep) for a non-empty sep
RECURSIVE Split(_, _)
Split(s, sep) ==
    LET i == IndexOf(s, sep)
    IN  IF i = 0 THEN <<s>>
        ELSE <<SubSeq(s, 1, i - 1)>> \o Split(SubSeq(s, i + Len(sep), Len(s)), sep)

\* app.py:149: video_url.split("v=")[1].split("&")[0]
ExtractVideoId(url) ==
    IF url.t # "str" THEN Raise("AttributeError")
    ELSE LET by_v == Split(url.v, <<118, 61>>)
         IN  IF Len(by_v) < 2 THEN Raise("IndexError")
             ELSE JStr(Split(by_v[2], <<38>>)[1])

SummarizeAttempts == 100      \* total_attempts, app.py:167
SummarizeDelay == 1           \* initial_delay_seconds, app.py:168

\* the "url" values a payload may carry: none, a number, and strings with and
\* without "v=" and "&"
Urls ==
    {<<>>,                                                        \* ""
     <<119, 97, 116, 99, 104>>,                                   \* "watch"
     <<119, 63, 118, 61, 97, 98, 99, 49, 50, 51>>,                \* "w?v=abc123"
     <<119, 63, 118, 61, 120, 38, 116, 61, 49>>,                  \* "w?v=x&t=1"
     <<119, 63, 118, 61>>,                                        \* "w?v="
     <<119, 63, 118, 61, 38, 116, 61, 49>>,                       \* "w?v=&t=1"
     <<119, 63, 116, 61, 49, 38, 118, 61, 120>>}                  \* "w?t=1&v=x"

UrlValues == {JNull, JNum(5)} \cup {JStr(u) : u \in Urls}

SummarizeInit ==
    /\ video_url \in UrlValues
    /\ message_history = JNull
    /\ handler = [NoHandler EXCEPT !.route = "summarize", !.pc = "request"]
    /\ events = <<>>
    /\ retry = <<>>
    /\ api_response_cache = [v \in VideoIds \cup {<<>>} |-> JNull]
    /\ ProtoOff /\ FetchOff /\ UnitOff

\* app.py:139-151, 200-205: the payload is validated and the stream returned
Summarize ==
    /\ handler.route = "summarize" /\ handler.pc = "request"
    /\ handler' =
          IF ~Truthy(video_url)
          THEN [handler EXCEPT !.pc = "answered", !.status_code = 400]
          ELSE LET id == ExtractVideoId(video_url)
               IN  IF IsExc(id)
                   THEN [handler EXCEPT !.pc = "answered",
                            !.status_code = IF ExcName(id) = "IndexError"
                                            THEN 400 ELSE 500]
                   ELSE [handler EXCEPT !.pc = "stream", !.video_id = id.v,
                                        !.status_code = 200]
    /\ UNCHANGED <<video_url, message_history, events, retryVars, protoVars, fetchVars, unitVars>>

MaxChunks == 2          \* chunks the LLM stream yields at most

\* an event of the stream other than an error event: the metadata event of
\* app.py:161, a chunk (an SSE message without an event name, app.py:184) or the
\* stream_end event of app.py:186
StreamEvent(name, data) == [event |-> name, data |-> data]

\* 'Summary stream finished', app.py:186
SummaryFinished ==
    <<83, 117, 109, 109, 97, 114, 121, 32, 115, 116, 114, 101, 97, 109, 32,
      102, 105, 110, 105, 115, 104, 101, 100>>

\* the error event of app.py:191-197
UnexpectedError == ErrorEvent(500, "unexpected error")

\* the text a chunk of the LLM stream carries
ChunkTexts == {<<72, 105>>}        \* "Hi"

\* str.join of texts with a space between them
RECURSIVE JoinWithSpace(_)
JoinWithSpace(texts) ==
    IF Len(texts) = 0 THEN <<>>
    ELSE IF Len(texts) = 1 THEN texts[1].v
    ELSE texts[1].v \o <<32>> \o JoinWithSpace(Tail(texts))

\* app.py:177: " ".join([entry["text"] for entry in transcript_list]); an item
\* that is not a str is a TypeError
JoinTexts(entries) ==
    LET texts == [i \in 1..Len(entries) |-> entries[i].text]
    IN  IF \E i \in 1..Len(texts) : texts[i].t # "str" THEN Raise("TypeError")
        ELSE JStr(JoinWithSpace(texts))

\* a plausible slip: the `return` after the yield of the error event forgotten
AfterFetchNoReturn(h, emitted, result) ==
    IF result.error_event # NoEvent
    THEN [handler |-> [h EXCEPT !.pc = "generating"],
          events |-> Append(emitted, result.error_event)]
    ELSE LET joined == JoinTexts(result.transcript.v)
         IN  IF IsExc(joined)
             THEN [handler |-> [h EXCEPT !.pc = "closed"],
                   events |-> Append(emitted, UnexpectedError)]
             ELSE [handler |-> [h EXCEPT !.pc = "generating",
                                         !.transcript_text = joined.v],
                   events |-> emitted]

\* app.py:171-177, 188-197: what the generator does with the tuple the wrapper
\* returned: the error event and the end, or the text of the transcript, or,
\* when the join raises, the error event of the except clause and the end
AfterFetch(h, emitted, result) ==
    IF result.error_event # NoEvent
    THEN [handler |-> [h EXCEPT !.pc = "closed"],
          events |-> Append(emitted, result.error_event)]
    ELSE LET joined == JoinTexts(result.transcript.v)
         IN  IF IsExc(joined)
             THEN [handler |-> [h EXCEPT !.pc = "closed"],
                   events |-> Append(emitted, UnexpectedError)]
             ELSE [handler |-> [h EXCEPT !.pc = "generating",
                                         !.transcript_text = joined.v],
                   events |-> emitted]

\* app.py:161-169: the generator starts, yields the metadata event and calls the
\* wrapper
StreamStart ==
    /\ handler.route = "summarize" /\ handler.pc = "stream"
    /\ handler' = [handler EXCEPT !.pc = "fetching"]
    /\ events' = Append(events, StreamEvent("metadata", handler.video_id))
    /\ retry' = <<NewCall(handler.video_id, SummarizeAttempts, SummarizeDelay)>>
    /\ UNCHANGED <<video_url, message_history, api_response_cache, protoVars, fetchVars, unitVars>>

\* app.py:164-177: the wrapper has returned
StreamFetched ==
    /\ handler.route = "summarize" /\ handler.pc = "fetching"
    /\ retry[1].pc = "done"
    /\ \E after \in {AfterFetch(handler, events, retry[1].result)} :
          /\ handler' = after.handler
          /\ events' = after.events
    /\ UNCHANGED <<video_url, message_history, retryVars, protoVars, fetchVars, unitVars>>

\* app.py:180-184: the LLM stream yields a chunk and the generator passes it on
LlmChunk ==
    /\ handler.route = "summarize" /\ handler.pc = "generating"
    /\ Cardinality({i \in DOMAIN events : events[i].event = "chunk"}) < MaxChunks
    /\ \E text \in ChunkTexts : events' = Append(events, StreamEvent("chunk", text))
    /\ UNCHANGED <<video_url, message_history, handler, retryVars, protoVars, fetchVars, unitVars>>

\* app.py:180, 186: the LLM stream is exhausted and stream_end is yielded
LlmFinish ==
    /\ handler.route = "summarize" /\ handler.pc = "generating"
    /\ handler' = [handler EXCEPT !.pc = "closed"]
    /\ events' = Append(events, StreamEvent("stream_end", SummaryFinished))
    /\ UNCHANGED <<video_url, message_history, retryVars, protoVars, fetchVars, unitVars>>

\* app.py:180, 188-197: the LLM stream raises; the except clause yields an error
\* event and the generator ends
LlmRaise ==
    /\ handler.route = "summarize" /\ handler.pc = "generating"
    /\ handler' = [handler EXCEPT !.pc = "closed"]
    /\ events' = Append(events, UnexpectedError)
    /\ UNCHANGED <<video_url, message_history, retryVars, protoVars, fetchVars, unitVars>>

SummarizeNext ==
    \/ Summarize
    \/ StreamStart
    \/ StreamFetched
    \/ LlmChunk
    \/ LlmFinish
    \/ LlmRaise
    \/ \E c \in DOMAIN retry : Enter(c)
    \/ \E c \in DOMAIN retry : Attempt(c)
    \/ \E c \in DOMAIN retry : Wake(c)
    \/ \E v \in DOMAIN api_response_cache : Expire(v)

SpecSummarize == SummarizeInit /\ [][SummarizeNext]_vars

----------------------------------------------------------------------------
(* SpecAsk: one request to /ask, app.py:208-315, and the event stream of its
   generator *)

\* the code points str.strip() removes
StrSpaces == IntSpaces \cup (28..31)

\* len(s.strip()) < 1
IsBlank(s) == \A i \in 1..Len(s) : s[i] \in StrSpaces

\* 'Answer stream finished', app.py:298
AnswerFinished ==
    <<65, 110, 115, 119, 101, 114, 32, 115, 116, 114, 101, 97, 109, 32,
      102, 105, 110, 105, 115, 104, 101, 100>>

AskAttempts == 100            \* total_attempts, app.py:263
AskDelay == 1                 \* initial_delay_seconds, app.py:264

\* a message of the history with the given content
Message(content) == JObj(<<KV("role", JStr(<<117>>)), KV("content", content)>>)

WHY == <<119, 104, 121, 63>>      \* "why?"

\* the "history" values a payload may carry; JList(<<>>) is also the default of a
\* payload without the key (app.py:219)
Histories ==
    {JNull, JList(<<>>), JStr(WHY), JObj(<<KV("content", JStr(WHY))>>),
     JList(<<Message(JStr(WHY))>>),
     JList(<<Message(JStr(<<>>)), Message(JStr(WHY))>>),
     JList(<<Message(JStr(WHY)), Message(JStr(<<>>))>>),
     JList(<<Message(JStr(<<32, 9, 31>>))>>),                  \* a blank question
     JList(<<JObj(<<>>)>>),                                    \* no content
     JList(<<JStr(WHY)>>),                                     \* a message that is no dict
     JList(<<Message(JNum(5))>>),                              \* a question that is no str
     JList(<<Message(JList(<<JStr(WHY)>>))>>)}

AskUrls == {JNull, JNum(5), JStr(<<>>), JStr(<<119, 97, 116, 99, 104>>),
            JStr(<<119, 63, 118, 61, 120>>), JStr(<<119, 63, 118, 61>>)}

\* app.py:215-250, 310-315: the status the handler answers with and the video id
\* of the stream it returns
AskAnswer(url, history) ==
    LET Status(code) == [status_code |-> code, video_id |-> <<>>]
    IN  IF ~Truthy(history) \/ history.t # "list" THEN Status(400)
        ELSE LET content == GetMethod(history.v[Len(history.v)], "content")
             IN  IF IsExc(content) THEN Status(500)
                 ELSE IF ~Truthy(content) THEN Status(400)
                 ELSE IF ~Truthy(url) THEN Status(400)
                 ELSE IF content.t # "str" THEN Status(500)    \* no .strip()
                 ELSE IF IsBlank(content.v) THEN Status(422)
                 ELSE LET id == ExtractVideoId(url)
                      IN  IF IsExc(id)
                          THEN Status(IF ExcName(id) = "IndexError" THEN 400 ELSE 500)
                          ELSE [status_code |-> 200, video_id |-> id.v]

AskInit ==
    /\ video_url \in AskUrls
    /\ message_history \in Histories
    /\ handler = [NoHandler EXCEPT !.route = "ask", !.pc = "request"]
    /\ events = <<>>
    /\ retry = <<>>
    /\ api_response_cache = [v \in VideoIds \cup {<<>>} |-> JNull]
    /\ ProtoOff /\ FetchOff /\ UnitOff

\* app.py:210-250, 310-315: the payload is validated and the stream returned
Ask ==
    /\ handler.route = "ask" /\ handler.pc = "request"
    /\ \E answered \in {AskAnswer(video_url, message_history)} :
          handler' = [handler EXCEPT
                         !.pc = IF answered.status_code = 200 THEN "stream"
                                ELSE "answered",
                         !.video_id = answered.video_id,
                         !.status_code = answered.status_code]
    /\ UNCHANGED <<video_url, message_history, events, retryVars, protoVars,
                   fetchVars, unitVars>>

\* app.py:258-265: the generator starts and calls the wrapper; nothing is yielded
AskStreamStart ==
    /\ handler.route = "ask" /\ handler.pc = "stream"
    /\ handler' = [handler EXCEPT !.pc = "fetching"]
    /\ retry' = <<NewCall(handler.video_id, AskAttempts, AskDelay)>>
    /\ UNCHANGED <<video_url, message_history, events, api_response_cache,
                   protoVars, fetchVars, unitVars>>

\* app.py:260-273, 300-308: the wrapper has returned; the lines are those of
\* /summarize (AfterFetch)
AskFetched ==
    /\ handler.route = "ask" /\ handler.pc = "fetching"
    /\ retry[1].pc = "done"
    /\ \E after \in {AfterFetch(handler, events, retry[1].result)} :
          /\ handler' = after.handler
          /\ events' = after.events
    /\ UNCHANGED <<video_url, message_history, retryVars, protoVars, fetchVars,
                   unitVars>>

\* app.py:293-296: the LLM stream yields a chunk and the generator passes it on
AskChunk ==
    /\ handler.route = "ask" /\ handler.pc = "generating"
    /\ Cardinality({i \in DOMAIN events : events[i].event = "chunk"}) < MaxChunks
    /\ \E text \in ChunkTexts : events' = Append(events, StreamEvent("chunk", text))
    /\ UNCHANGED <<video_url, message_history, handler, retryVars, protoVars,
                   fetchVars, unitVars>>

\* app.py:293, 298: the LLM stream is exhausted and stream_end is yielded
AskFinish ==
    /\ handler.route = "ask" /\ handler.pc = "generating"
    /\ handler' = [handler EXCEPT !.pc = "closed"]
    /\ events' = Append(events, StreamEvent("stream_end", AnswerFinished))
    /\ UNCHANGED <<video_url, message_history, retryVars, protoVars, fetchVars,
                   unitVars>>

\* app.py:293, 300-308: the LLM stream raises; the except clause yields an error
\* event and the generator ends
AskRaise ==
    /\ handler.route = "ask" /\ handler.pc = "generating"
    /\ handler' = [handler EXCEPT !.pc = "closed"]
    /\ events' = Append(events, UnexpectedError)
    /\ UNCHANGED <<video_url, message_history, retryVars, protoVars, fetchVars,
                   unitVars>>

AskNext ==
    \/ Ask
    \/ AskStreamStart
    \/ AskFetched
    \/ AskChunk
    \/ AskFinish
    \/ AskRaise
    \/ \E c \in DOMAIN retry : Enter(c)
    \/ \E c \in DOMAIN retry : Attempt(c)
    \/ \E c \in DOMAIN retry : Wake(c)
    \/ \E v \in DOMAIN api_response_cache : Expire(v)

SpecAsk == AskInit /\ [][AskNext]_vars

----------------------------------------------------------------------------
(* Claims about fetch_transcript_with_retries, checked under Spec *)

NOTFOUND == "TranscriptNotFoundError"

\* max(1, total_attempts), written out
AttemptBound(call) == IF call.total_attempts >= 1 THEN call.total_attempts ELSE 1

\* C1: an attempt that raises TranscriptNotFoundError is the call's last: with it
\* the call has returned (None, 404 event) and is over, so that no attempt and no
\* sleep follows, however many attempts remain; it slept before each of its earlier
\* retries and not after this attempt.
C1_NotFoundReturnsAtOnce ==
    \A c \in DOMAIN retry :
        retry[c].last_raised = NOTFOUND =>
            /\ retry[c].pc = "done"
            /\ retry[c].result = Returned(JNull, ErrorEvent(404, "not found"))
            /\ Len(retry[c].slept) = retry[c].attempts - 1
            /\ retry[c].failed = retry[c].attempts - 1

\* a second attempt raised TranscriptNotFoundError with a third one still allowed
C1_Witness ==
    \E c \in DOMAIN retry :
        /\ retry[c].total_attempts = 3
        /\ retry[c].attempts = 2
        /\ retry[c].last_raised = NOTFOUND
        /\ retry[c].pc = "done"

\* C2: a call makes at most max(1, total_attempts) attempts and has made at least
\* one when it returns (also for total_attempts <= 0); when every attempt failed
\* with something other than TranscriptNotFoundError, the call that has returned
\* made exactly max(1, total_attempts) attempts and returned a 500 error event,
\* and after the last allowed attempt the call has returned: it neither sleeps nor
\* tries again.
C2_AttemptsAreBounded ==
    \A c \in DOMAIN retry :
        /\ retry[c].attempts <= AttemptBound(retry[c])
        /\ retry[c].pc = "done" => retry[c].attempts >= 1
        /\ (retry[c].pc = "done" /\ retry[c].failed = retry[c].attempts) =>
              /\ retry[c].attempts = AttemptBound(retry[c])
              /\ retry[c].result.transcript = JNull
              /\ retry[c].result.error_event.event = "error"
              /\ retry[c].result.error_event.status_code = 500
        /\ retry[c].attempts = AttemptBound(retry[c]) => retry[c].pc = "done"

\* three attempts allowed, three transient failures, then the error result
C2_Witness ==
    \E c \in DOMAIN retry :
        /\ retry[c].total_attempts = 3
        /\ retry[c].attempts = 3
        /\ retry[c].failed = 3
        /\ retry[c].pc = "done"
        /\ retry[c].result.error_event.status_code = 500

----------------------------------------------------------------------------
(* Claims about fetch_transcript, checked under SpecFetch *)

\* two outcomes agree: the same exception, or the same list of segments
SameOutcome(a, b) ==
    /\ a.t = b.t
    /\ IsExc(a) => ExcName(a) = ExcName(b)
    /\ ~IsExc(a) => a.v = b.v

\* C3: when the resolver failed, for whatever reason, fetch_transcript goes on to
\* the protocol call, makes it with language "en" and track kind "standard" (the
\* request carries the params of exactly that descriptor), never ends with the
\* resolver's exception, and ends with what the protocol call yields on the answer
\* received.
C3_ResolverFailureIsAbsorbed ==
    IsExc(lang_info) =>
        /\ fpc # "resolve"
        /\ language = EN /\ track_kind = STANDARD
        /\ fpc # "request" =>
              params = <<BuildParams(video_id, <<115, 116, 97, 110, 100, 97, 114, 100>>,
                                     <<101, 110>>)>>
        /\ fpc = "done" =>
              /\ ExcName(lang_info) \notin
                    (IF IsExc(outcome) THEN {ExcName(outcome)} ELSE {})
              /\ SameOutcome(outcome, ParseResponse(video_id, response))

\* the catalog listed no caption track, and the call still returned a transcript
C3_Witness ==
    /\ IsExc(lang_info)
    /\ lang_info.v = <<"Exception", "no subtitles found">>
    /\ queries = <<"videos.list", "captions.list">>
    /\ fpc = "done"
    /\ ~IsExc(outcome)
    /\ Len(outcome.v) = 2

\* the body has a gap on the path of transcripts.py:210-216 at or below `node`,
\* which stands at depth d: a dict without the next key, an empty `actions` list,
\* or an empty initialSegments list at the end of an intact path
RECURSIVE PathGap(_, _)
PathGap(node, d) ==
    IF d = Len(PathSteps) THEN node.t = "list" /\ Len(node.v) = 0
    ELSE IF PathSteps[d + 1] = "0"
         THEN node.t = "list" /\ (Len(node.v) = 0 \/ PathGap(node.v[1], d + 1))
    ELSE /\ node.t = "obj"
         /\ \/ ~DictHas(node.v, PathSteps[d + 1])
            \/ PathGap(DictGet(node.v, PathSteps[d + 1]), d + 1)

\* C4: when the POST succeeds and the body lacks `actions`, has an empty `actions`
\* list, lacks a later key of the path or has an empty initialSegments list, the
\* call never enters the segment loop and ends with TranscriptNotFoundError
\* carrying the video id: not with another exception, not with segments.
C4_GapIsNotFound ==
    (response.status = "ok" /\ PathGap(response.body, 0)) =>
        /\ fpc \in {"locate", "done"}
        /\ output = <<>>
        /\ fpc = "done" =>
              /\ IsExc(outcome)
              /\ outcome.v = <<NOTFOUND, video_id>>

\* the body is {"actions": []}
C4_Witness ==
    /\ fpc = "done"
    /\ response.status = "ok"
    /\ response.body.t = "obj"
    /\ DictHas(response.body.v, "actions")
    /\ DictGet(response.body.v, "actions").t = "list"
    /\ Len(DictGet(response.body.v, "actions").v) = 0
    /\ IsExc(outcome)
    /\ outcome.v = <<NOTFOUND, <<97, 98, 99, 49, 50, 51>> >>

\* the body has a value of the wrong type on the path at or below `node`, which
\* stands at depth d: something other than a list where `actions` is indexed,
\* something other than a dict where a key is looked up
RECURSIVE WrongTypeOnPath(_, _)
WrongTypeOnPath(node, d) ==
    IF d = Len(PathSteps) THEN FALSE
    ELSE IF PathSteps[d + 1] = "0"
         THEN \/ node.t # "list"
              \/ Len(node.v) > 0 /\ WrongTypeOnPath(node.v[1], d + 1)
    ELSE \/ node.t # "obj"
         \/ /\ DictHas(node.v, PathSteps[d + 1])
            /\ WrongTypeOnPath(DictGet(node.v, PathSteps[d + 1]), d + 1)

\* C5 (as claimed; the code does otherwise): a value of the wrong type anywhere on
\* the path ends the call with TranscriptNotFoundError.
C5_WrongTypeIsNotFound ==
    (fpc = "done" /\ response.status = "ok" /\ WrongTypeOnPath(response.body, 0)) =>
        /\ IsExc(outcome)
        /\ ExcName(outcome) = NOTFOUND

\* the entries of initialSegments, once located
Entries == Iterate(initial_segments).v

HEADER == "transcriptSectionHeaderRenderer"
CONTENT == "transcriptSegmentRenderer"

IsHeader(segment) == segment.t = "obj" /\ DictHas(segment.v, HEADER)

\* the renderer carries the field, and not as null
Carries(line, f) == line.t = "obj" /\ DictHas(line.v, f) /\ DictGet(line.v, f).t # "null"

\* the renderer the loop reads the line from: the header when it has a non-empty
\* one, else the content line
Renderer(segment) ==
    IF IsHeader(segment) /\ Truthy(DictGet(segment.v, HEADER))
    THEN DictGet(segment.v, HEADER)
    ELSE IF DictHas(segment.v, CONTENT) THEN DictGet(segment.v, CONTENT)
    ELSE JNull

Complete(segment) ==
    \A f \in {"startMs", "endMs", "snippet"} : Carries(Renderer(segment), f)

\* C6 (as claimed; refuted): section headers never contribute an element: the
\* output is never longer than the number of entries read that are not headers.
C6_HeadersNeverContribute ==
    (fpc \in {"loop", "done"} /\ initial_segments.t = "list") =>
        Len(output) <= Cardinality({i \in 1..(idx - 1) : ~IsHeader(Entries[i])})

\* C6 (amended): a section header contributes an element exactly when it carries
\* startMs, endMs and snippet, like a content line; a header lacking one of the
\* three contributes nothing.  So the output holds one element per entry read
\* whose renderer, header or content line, carries all three.
C6_HeaderContributesIffComplete ==
    (fpc \in {"loop", "done"} /\ initial_segments.t = "list") =>
        /\ Len(output) = Cardinality({i \in 1..(idx - 1) : Complete(Entries[i])})
        /\ (\A i \in 1..(idx - 1) : IsHeader(Entries[i])) =>
              Len(output) = Cardinality({i \in 1..(idx - 1) :
                  \A f \in {"startMs", "endMs", "snippet"} :
                      Carries(DictGet(Entries[i].v, HEADER), f)})

\* a titled header and a header without snippet were read: one element came out
C6_Witness ==
    /\ fpc = "done"
    /\ initial_segments.t = "list"
    /\ Len(Entries) = 2
    /\ IsHeader(Entries[1]) /\ Complete(Entries[1])
    /\ IsHeader(Entries[2]) /\ ~Complete(Entries[2])
    /\ ~IsExc(outcome)
    /\ Len(outcome.v) = 1

\* C7 (as claimed; the code does otherwise): no entry of initialSegments aborts
\* the fetch: once a list of entries was located, the call ends by returning.
C7_NoLineAbortsTheFetch ==
    (fpc = "done" /\ initial_segments.t = "list"
       /\ \A i \in 1..Len(Entries) : Entries[i].t = "obj") =>
        ~IsExc(outcome)

Sec(neg, whole, milli) == [neg |-> neg, whole |-> whole, milli |-> milli]

\* what each kind of entry of SegmentCases is to contribute, worked out by hand:
\* text, startMs / 1000, (endMs - startMs) / 1000
ExpectedOf(k) ==
    CASE k = 1 -> <<[text |-> JStr(<<97>>), start |-> Sec(FALSE, 1, 500),
                     duration |-> Sec(FALSE, 2, 700)]>>
      [] k = 2 -> <<[text |-> JStr(<<98, 99>>), start |-> Sec(FALSE, 4, 200),
                     duration |-> Sec(FALSE, 1, 800)]>>
      [] k = 3 -> <<[text |-> JStr(<<104>>), start |-> Sec(FALSE, 0, 0),
                     duration |-> Sec(FALSE, 1, 500)]>>
      [] k = 10 -> <<[text |-> JStr(<<97>>), start |-> Sec(FALSE, 4, 200),
                      duration |-> Sec(TRUE, 2, 700)]>>
      [] k = 11 -> <<[text |-> JStr(<<97>>), start |-> Sec(TRUE, 0, 500),
                      duration |-> Sec(FALSE, 2, 0)]>>
      [] k = 13 -> <<[text |-> JStr(<<>>), start |-> Sec(FALSE, 1, 500),
                      duration |-> Sec(FALSE, 2, 700)]>>
      [] k = 15 -> <<[text |-> JNum(5), start |-> Sec(FALSE, 1, 500),
                      duration |-> Sec(FALSE, 2, 700)]>>
      [] k = 16 -> <<[text |-> JStr(<<97>>), start |-> Sec(FALSE, 1, 500),
                      duration |-> Sec(FALSE, 2, 700)]>>
      [] OTHER -> <<>>

RECURSIVE ExpectedPrefix(_, _)
ExpectedPrefix(segs, n) ==
    IF n = 0 THEN <<>> ELSE ExpectedPrefix(segs, n - 1) \o ExpectedOf(segs[n])

\* C8: the output holds one segment per retained line, in the order of the lines
\* in initialSegments, each with start = startMs / 1000, duration =
\* (endMs - startMs) / 1000 and the plain string or the joined runs as text; the
\* list returned is that output.
C8_SegmentsInOrder ==
    (fpc \in {"loop", "done"} /\ answer.status = "ok"
       /\ answer.wrongAt = Len(PathSteps) + 1 /\ initial_segments.t = "list") =>
        /\ output = ExpectedPrefix(answer.segs, idx - 1)
        /\ (fpc = "done" /\ ~IsExc(outcome)) =>
              /\ idx = Len(answer.segs) + 1
              /\ outcome.v = output

\* the later line came first: runs "b", "c" at 4.2 s, then "a" at 1.5 s for 2.7 s
C8_Witness ==
    /\ fpc = "done"
    /\ answer.segs = <<2, 1>>
    /\ ~IsExc(outcome)
    /\ outcome.v = <<[text |-> JStr(<<98, 99>>), start |-> Sec(FALSE, 4, 200),
                      duration |-> Sec(FALSE, 1, 800)],
                     [text |-> JStr(<<97>>), start |-> Sec(FALSE, 1, 500),
                      duration |-> Sec(FALSE, 2, 700)]>>

\* C9 (as claimed; the code does otherwise): every segment returned has
\* start >= 0 and duration >= 0.
C9_TimesAreNonNegative ==
    (fpc = "done" /\ ~IsExc(outcome)) =>
        \A i \in 1..Len(outcome.v) :
            ~outcome.v[i].start.neg /\ ~outcome.v[i].duration.neg

----------------------------------------------------------------------------
(* Claims about _get_base64_protobuf, checked under SpecProto.  The output is
   read back with a decoder written for the purpose: base64 to bytes, bytes to
   the records (field number, wire type, payload) of a protobuf message. *)

B64Index(c) ==
    IF c >= 65 /\ c <= 90 THEN c - 65
    ELSE IF c >= 97 /\ c <= 122 THEN c - 97 + 26
    ELSE IF c >= 48 /\ c <= 57 THEN c - 48 + 52
    ELSE IF c = 43 THEN 62 ELSE 63

RECURSIVE B64Decode(_)
B64Decode(s) ==
    IF Len(s) < 4 THEN <<>>
    ELSE LET a == B64Index(s[1])
             b == B64Index(s[2])
             c == B64Index(s[3])
             d == B64Index(s[4])
             three == <<a * 4 + (b \div 16), (b % 16) * 16 + (c \div 4),
                        (c % 4) * 64 + d>>
         IN  IF s[3] = 61 THEN <<three[1]>>
             ELSE IF s[4] = 61 THEN <<three[1], three[2]>>
             ELSE three \o B64Decode(SubSeq(s, 5, Len(s)))

\* the varint starting at bytes[i]: its value and the index after it
RECURSIVE ReadVarint(_, _)
ReadVarint(bytes, i) ==
    IF i > Len(bytes) THEN [value |-> 0, next |-> i]
    ELSE IF bytes[i] < 128 THEN [value |-> bytes[i], next |-> i + 1]
    ELSE LET rest == ReadVarint(bytes, i + 1)
         IN  [value |-> (bytes[i] - 128) + 128 * rest.value, next |-> rest.next]

\* the records of a message of length-delimited fields, from bytes[i] on
RECURSIVE ReadRecords(_, _)
ReadRecords(bytes, i) ==
    IF i > Len(bytes) THEN <<>>
    ELSE LET tag == ReadVarint(bytes, i)
             len == ReadVarint(bytes, tag.next)
             last == len.next + len.value - 1
         IN  <<[field |-> tag.value \div 8, wire |-> tag.value % 8,
                payload |-> SubSeq(bytes, len.next, last)]>>
             \o ReadRecords(bytes, last + 1)

\* UTF-8 of one and two bytes, back to code points
RECURSIVE Utf8Decode(_)
Utf8Decode(b) ==
    IF b = <<>> THEN <<>>
    ELSE IF b[1] < 128 THEN <<b[1]>> \o Utf8Decode(Tail(b))
    ELSE <<(b[1] - 192) * 64 + (b[2] - 128)>> \o Utf8Decode(Tail(Tail(b)))

\* the message gives the key a string (not None)
Given(msg, key) == \E i \in 1..Len(msg) : msg[i].k = key /\ msg[i].v.t = "str"

ValueOf(msg, key) == msg[CHOOSE i \in 1..Len(msg) : msg[i].k = key].v.v

RecordFor(msg, key, n) ==
    IF Given(msg, key)
    THEN <<[field |-> n, wire |-> 2, text |-> ValueOf(msg, key)]>>
    ELSE <<>>

Decoded(records) ==
    [i \in 1..Len(records) |->
        [field |-> records[i].field, wire |-> records[i].wire,
         text |-> Utf8Decode(records[i].payload)]]

\* C10: a field absent or None leaves no record in the output, a field given as
\* the empty string leaves a tag followed by a zero length, and the records stand
\* in field-number order, field 1 before field 2, whatever the key order of the
\* message.
C10_FieldsInNumberOrder ==
    encoded # JNull =>
        LET bytes == B64Decode(encoded.v)
            records == ReadRecords(bytes, 1)
        IN  /\ b64encode(bytes) = encoded.v
            /\ Decoded(records) =
                   RecordFor(message, "param1", 1) \o RecordFor(message, "param2", 2)
            /\ ~Given(message, "param1") => \A i \in 1..Len(records) : records[i].field # 1
            /\ ~Given(message, "param2") => \A i \in 1..Len(records) : records[i].field # 2
            /\ (Given(message, "param1") /\ ValueOf(message, "param1") = <<>>) =>
                   SubSeq(bytes, 1, 2) = <<10, 0>>
            /\ (~Given(message, "param1") /\ Given(message, "param2")
                  /\ ValueOf(message, "param2") = <<>>) => bytes = <<18, 0>>

\* {"param2": "x", "param1": ""} came out as the bytes 0A 00 12 01 78, "CgASAXg="
C10_Witness ==
    /\ message = <<KV("param2", JStr(<<120>>)), KV("param1", JStr(<<>>))>>
    /\ encoded = JStr(<<67, 103, 65, 83, 65, 88, 103, 61>>)

----------------------------------------------------------------------------
(* Claims about the request parameter, checked under SpecFetch *)

Record(n, text) == [field |-> n, wire |-> 2, text |-> text]

\* C11: the params of the POST are a nested encoding: the outer block's field 1
\* is the video id verbatim and its field 2 the base64 text of the inner block;
\* the inner block holds field 2 = the language, and field 1 = "asr" exactly when
\* the track kind is "asr", no field 1 otherwise.
C11_ParamsAreNested ==
    Len(params) >= 1 =>
        LET outer == Decoded(ReadRecords(B64Decode(params[1]), 1))
        IN  /\ b64encode(B64Decode(params[1])) = params[1]
            /\ Len(outer) = 2
            /\ outer[1] = Record(1, video_id)
            /\ outer[2].field = 2 /\ outer[2].wire = 2
            /\ b64encode(B64Decode(outer[2].text)) = outer[2].text
            /\ LET inner == Decoded(ReadRecords(B64Decode(outer[2].text), 1))
               IN  /\ inner = IF track_kind = <<97, 115, 114>>
                              THEN <<Record(1, <<97, 115, 114>>), Record(2, language)>>
                              ELSE <<Record(2, language)>>
                   /\ (\E i \in 1..Len(inner) : inner[i].field = 1)
                         <=> track_kind = <<97, 115, 114>>

\* video "x" with the automatic track in "ru" was asked for with
\* CgF4EgxDZ05oYzNJU0FuSjE=, which holds x and CgNhc3ISAnJ1 (asr, ru)
C11_Witness ==
    /\ fpc = "done"
    /\ video_id = <<120>>
    /\ track_kind = <<97, 115, 114>>
    /\ language = <<114, 117>>
    /\ params = <<<<67, 103, 70, 52, 69, 103, 120, 68, 90, 48, 53, 111, 89, 122, 78, 74, 85, 48, 70, 117, 83, 106, 69, 61>>>>

----------------------------------------------------------------------------
(* Claims about _encode_varint, checked under SpecVarint *)

RECURSIVE BitLength(_)
BitLength(v) == IF v = 0 THEN 0 ELSE 1 + BitLength(v \div 2)

\* max(1, ceil(bitlength(v) / 7))
VarintLength(v) == IF v = 0 THEN 1 ELSE (BitLength(v) + 6) \div 7

\* little-endian groups of 7 bits
RECURSIVE Groups7(_)
Groups7(b) == IF b = <<>> THEN 0 ELSE (Head(b) % 128) + 128 * Groups7(Tail(b))

\* C12: _encode_varint(v) is max(1, ceil(bitlength(v) / 7)) bytes long, has 0x80
\* set on every byte but the last and clear on the last, and its groups of 7
\* bits, least significant first, give v back; 0 encodes to the one byte 0x00.
C12_VarintRoundTrip ==
    varint_parts # JNull =>
        LET b == varint_parts.v
        IN  /\ Len(b) = VarintLength(varint_value)
            /\ \A i \in 1..Len(b) : b[i] \in 0..255
            /\ \A i \in 1..(Len(b) - 1) : b[i] >= 128
            /\ b[Len(b)] < 128
            /\ Groups7(b) = varint_value
            /\ varint_value = 0 => b = <<0>>

\* 300 came out as AC 02
C12_Witness ==
    /\ varint_value = 300
    /\ varint_parts # JNull
    /\ varint_parts.v = <<172, 2>>

----------------------------------------------------------------------------
(* Claims about _get_default_subtitle_language, checked under SpecResolve *)

Called == resolved.t # "null"

\* the catalog has a client, answers both queries, knows the video once and
\* lists a track for it
Resolvable(c) ==
    c.client /\ ~c.videosExc /\ c.nVideos = 1 /\ ~c.captionsExc /\ c.tracks # <<>>

\* C13: the resolver raises, and returns no descriptor, when the client was never
\* initialized, when the video query returns no item or more than one, and when
\* no caption track is listed; without a client it raises before any query.
C13_ResolverFails ==
    Called =>
        LET c == catalog_state
            raised == resolved.t = "exc" /\ resolved.v[1] = "Exception"
        IN  /\ ~c.client => raised /\ resolved.queries = <<>>
            /\ (c.client /\ ~c.videosExc /\ c.nVideos = 0) =>
                   raised /\ resolved.queries = <<"videos.list">>
            /\ (c.client /\ ~c.videosExc /\ c.nVideos > 1) =>
                   raised /\ resolved.queries = <<"videos.list">>
            /\ (c.client /\ ~c.videosExc /\ c.nVideos = 1 /\ ~c.captionsExc
                  /\ c.tracks = <<>>) =>
                   raised /\ resolved.queries = <<"videos.list", "captions.list">>
            /\ ~Resolvable(c) => resolved.t = "exc"

\* two catalog entries for the video: raised after the one video query
C13_Witness ==
    /\ catalog_state.client /\ catalog_state.nVideos = 2
    /\ resolved.t = "exc"
    /\ resolved.v = <<"Exception", "multiple videos found">>
    /\ resolved.queries = <<"videos.list">>

\* the preferred language: the default language, else the default audio language;
\* <<>> when the video has neither
Preferred(c) == IF c.dl # <<>> THEN c.dl ELSE c.dal

\* the index of the track the rule selects
Selected(c) ==
    LET matches == {i \in 1..Len(c.tracks) : c.tracks[i].language = Preferred(c)}
    IN  IF Preferred(c) # <<>> /\ matches # {}
        THEN CHOOSE i \in matches : \A j \in matches : i <= j
        ELSE 1

\* C14: when resolution succeeds the descriptor is the language and track kind of
\* the first listed track in the preferred language (the default language, else
\* the default audio language), or of the first listed track when there is no
\* preferred language or no track in it.
C14_SelectedTrack ==
    Called =>
        /\ Resolvable(catalog_state) <=> resolved.t = "obj"
        /\ resolved.t = "obj" =>
              LET track == catalog_state.tracks[Selected(catalog_state)]
              IN  /\ Len(resolved.v) = 2
                  /\ DictGet(resolved.v, "language") = JStr(track.language)
                  /\ DictGet(resolved.v, "trackKind") = JStr(track.trackKind)

\* no default language, audio language "ru", tracks ru/standard then ru/asr:
\* the first of the two matches was taken
C14_Witness ==
    /\ catalog_state.dl = <<>> /\ catalog_state.dal = <<114, 117>>
    /\ Len(catalog_state.tracks) = 2
    /\ catalog_state.tracks[1] = [language |-> <<114, 117>>,
                                   trackKind |-> <<115, 116, 97, 110, 100, 97, 114, 100>>]
    /\ catalog_state.tracks[2] = [language |-> <<114, 117>>,
                                   trackKind |-> <<97, 115, 114>>]
    /\ resolved.t = "obj"
    /\ DictGet(resolved.v, "trackKind") = JStr(<<115, 116, 97, 110, 100, 97, 114, 100>>)

----------------------------------------------------------------------------
(* Claims about the course of one protocol call, checked under SpecFetch *)

\* C15: a call builds the params, sends one POST and ends in exactly one of: a
\* list of segments, TranscriptNotFoundError, another error.  It never sends a
\* second POST, and an HTTP error status, a network failure or an unparseable
\* body ends the call with that error, never with TranscriptNotFoundError and
\* never with a list.
C15_OnePostOneOutcome ==
    /\ Len(params) <= 1
    /\ Len(params) = (IF fpc \in {"off", "resolve", "request"} THEN 0 ELSE 1)
    /\ fpc # "done" => outcome.t = "null"
    /\ fpc = "done" =>
          /\ outcome.t \in {"list", "exc"}
          /\ answer.status # "none"
          /\ answer.status \in {"ConnectionError", "HTTPError", "JSONDecodeError"} =>
                /\ outcome = [t |-> "exc", v |-> <<answer.status>>]
                /\ output = <<>> /\ idx = 0

\* the body was no JSON: one POST was sent and JSONDecodeError reached the caller
C15_Witness ==
    /\ fpc = "done"
    /\ Len(params) = 1
    /\ answer.status = "JSONDecodeError"
    /\ outcome = [t |-> "exc", v |-> <<"JSONDecodeError">>]

----------------------------------------------------------------------------
(* Claims about the delays of fetch_transcript_with_retries, checked under Spec *)

\* C16: the delay is fixed: every sleep lasts initial_delay_seconds, however many
\* attempts have failed; there is exactly one sleep after each failed attempt
\* that is followed by a retry, and none after the final attempt, after a
\* success or after a not-found outcome.
C16_DelayIsFixed ==
    \A c \in DOMAIN retry :
        LET call == retry[c]
        IN  /\ \A k \in 1..Len(call.slept) : call.slept[k] = call.initial_delay_seconds
            /\ call.pc \in {"loop", "sleep"} =>
                  Len(call.slept) = IF call.pc = "sleep"
                                    THEN call.attempt_num_zero_based + 1
                                    ELSE call.attempt_num_zero_based
            /\ call.pc = "sleep" => call.attempts = Len(call.slept)
                                      /\ call.attempts < AttemptBound(call)
            /\ call.pc = "done" => Len(call.slept) = call.attempts - 1

\* three attempts with a delay of 2 all failed: two sleeps of 2, none at the end
C16_Witness ==
    \E c \in DOMAIN retry :
        /\ retry[c].pc = "done"
        /\ retry[c].total_attempts = 3
        /\ retry[c].initial_delay_seconds = 2
        /\ retry[c].failed = 3
        /\ retry[c].slept = <<2, 2>>

\* C18 (as claimed; the code does otherwise): the sleep after the k-th failed
\* attempt lasts initial_delay_seconds * 2^(k-1).
C18_DelaysDouble ==
    \A c \in DOMAIN retry :
        \A k \in 1..Len(retry[c].slept) :
            retry[c].slept[k] = retry[c].initial_delay_seconds * 2 ^ (k - 1)

----------------------------------------------------------------------------
(* Claims about the result of fetch_transcript_with_retries, checked under Spec *)

\* C19: a call returns a pair with exactly one None: (transcript, None) exactly
\* when an attempt succeeded; otherwise (None, error event), with status 404
\* exactly when the last attempt raised TranscriptNotFoundError and 500 exactly
\* when all max(1, total_attempts) attempts failed otherwise; the error event
\* after the loop is never returned.
C19_ResultIsOneOfThree ==
    \A c \in DOMAIN retry :
        LET call == retry[c]
            transcript == call.result.transcript
            event == call.result.error_event
            succeeded == call.attempts >= 1 /\ call.last_raised = "none"
        IN  /\ call.pc # "done" => call.result = NotReturned
            /\ call.pc = "done" =>
                  /\ (transcript.t = "null") # (event.event = "none")
                  /\ transcript.t # "null" <=> succeeded
                  /\ transcript.t # "null" => transcript.t = "list"
                  /\ event.event # "none" =>
                        /\ event.event = "error"
                        /\ event.status_code \in {404, 500}
                        /\ event.status_code = 404 <=> call.last_raised = NOTFOUND
                        /\ event.status_code = 500 <=>
                              (call.failed = call.attempts
                                 /\ call.attempts = AttemptBound(call))
                  /\ event.error # "unknown error"

\* the first attempt failed, the second returned a transcript
C19_Witness ==
    \E c \in DOMAIN retry :
        /\ retry[c].pc = "done"
        /\ retry[c].attempts = 2 /\ retry[c].failed = 1
        /\ retry[c].result.transcript.t = "list"
        /\ retry[c].result.error_event = NoEvent

----------------------------------------------------------------------------
(* Claims about the video identifier, checked under SpecSummarize *)

\* C17 (as claimed; the code does otherwise): no request leads to a call of
\* fetch_transcript, and so to a POST, with an empty video identifier.
C17_VideoIdIsNonEmpty ==
    \A c \in DOMAIN retry : retry[c].fetched > 0 => retry[c].video_id # <<>>

----------------------------------------------------------------------------
(* Claims about the response cache, checked under SpecConcurrent *)

CacheHoldsTranscripts ==
    \A v \in DOMAIN api_response_cache : api_response_cache[v].t \in {"null", "list"}

\* what a step that is an attempt of call c does with the cache
AttemptUsesCache(c) ==
    LET v == retry[c].video_id
        before == api_response_cache[v]
        raised == retry'[c].last_raised # "none"
        called == retry'[c].fetched = retry[c].fetched + 1
    IN  /\ retry'[c].fetched \in {retry[c].fetched, retry[c].fetched + 1}
        /\ before.t = "null" => called
        /\ before.t # "null" =>
              /\ ~called
              /\ retry'[c].pc = "done"
              /\ retry'[c].result = Returned(before, NoEvent)
              /\ api_response_cache' = api_response_cache
        /\ raised => called /\ api_response_cache' = api_response_cache
        /\ (called /\ ~raised) =>
              /\ retry'[c].pc = "done"
              /\ api_response_cache' =
                    [api_response_cache EXCEPT ![v] = retry'[c].result.transcript]

\* C20: under every interleaving of two calls the cache holds only transcripts
\* that a fetch returned, never an error: an attempt that raises leaves the
\* cache as it was, an attempt that finds no entry calls fetch_transcript, and an
\* attempt that finds an entry, whichever call made it, returns that transcript
\* without calling fetch_transcript.
C20_CacheHoldsOnlySuccesses ==
    /\ []CacheHoldsTranscripts
    /\ [][\A c \in DOMAIN retry :
            retry'[c].attempts = retry[c].attempts + 1 => AttemptUsesCache(c)]_vars

\* call 2 failed once and slept; meanwhile call 1 fetched the transcript; call 2
\* woke and was served from the cache
C20_Witness ==
    /\ DOMAIN retry = {1, 2}
    /\ retry[1].video_id = retry[2].video_id
    /\ retry[1].pc = "done" /\ retry[1].attempts = 1 /\ retry[1].fetched = 1
    /\ retry[2].pc = "done" /\ retry[2].attempts = 2 /\ retry[2].fetched = 1
    /\ retry[2].failed = 1
    /\ retry[1].result.transcript.t = "list"
    /\ retry[2].result = retry[1].result
    /\ api_response_cache[retry[1].video_id] = retry[1].result.transcript

----------------------------------------------------------------------------
(* Claims about the event stream of /summarize, checked under SpecSummarize *)

Terminals == {i \in DOMAIN events : events[i].event \in {"error", "stream_end"}}
EventsNamed(name) == {i \in DOMAIN events : events[i].event = name}

\* the wrapper has returned a transcript and no error event
FetchSucceeded ==
    /\ DOMAIN retry = {1}
    /\ retry[1].pc = "done"
    /\ retry[1].result.error_event = NoEvent
    /\ retry[1].result.transcript.t = "list"

\* the wrapper has returned an error event
FetchFailed ==
    /\ DOMAIN retry = {1}
    /\ retry[1].pc = "done"
    /\ retry[1].result.error_event # NoEvent

\* metadata first and only first; at most one terminal event, and nothing after it
StreamShape ==
    /\ EventsNamed("metadata") = (IF events = <<>> THEN {} ELSE {1})
    /\ Cardinality(Terminals) <= 1
    /\ \A i \in Terminals : i = Len(events)
    /\ handler.pc = "closed" <=> Terminals # {}
    /\ handler.pc \in {"fetching", "generating", "closed"} <=> events # <<>>

StreamOutcome ==
    /\ EventsNamed("chunk") # {} => FetchSucceeded
    /\ EventsNamed("stream_end") # {} => FetchSucceeded /\ EventsNamed("error") = {}
    /\ (handler.pc = "closed" /\ FetchFailed) =>
          events = <<StreamEvent("metadata", handler.video_id),
                     retry[1].result.error_event>>
    /\ (handler.pc = "closed" /\ FetchSucceeded) =>
          events[Len(events)] \in {StreamEvent("stream_end", SummaryFinished),
                                  UnexpectedError}

\* a step emits at most one event, after the ones emitted, and none once the
\* stream has ended; an exception of the LLM stream ends it
StreamStep ==
    /\ events' # events => Len(events') = Len(events) + 1
                            /\ SubSeq(events', 1, Len(events)) = events
    /\ handler.pc = "closed" => events' = events /\ handler' = handler
    /\ (handler.pc = "generating" /\ events' # events
           /\ events'[Len(events')].event # "chunk") => handler'.pc = "closed"

\* a stream that has not ended can go on towards its end: the generator, the
\* wrapper (whose loop is bounded by num_attempts_to_make) or the end of the LLM
\* stream has a step to take; an iteration of the wrapper's loop (Attempt) has
\* no condition but its position
StreamCanGoOn ==
    /\ handler.pc = "stream" => ENABLED StreamStart
    /\ handler.pc = "fetching" =>
          \/ retry[1].pc = "loop"
          \/ ENABLED (StreamFetched \/ \E c \in DOMAIN retry : Enter(c) \/ Wake(c))
    /\ handler.pc = "generating" => ENABLED (LlmFinish \/ LlmRaise)
    /\ \A c \in DOMAIN retry :
          /\ retry[c].attempts <= SummarizeAttempts
          /\ retry[c].pc # "done" => retry[c].attempts < SummarizeAttempts

\* C21: the event stream of /summarize starts with the metadata event and ends
\* with exactly one terminal event, error or stream_end, after which nothing is
\* emitted; chunks and stream_end come only after a successful fetch, stream_end
\* only when no error was emitted, a failed fetch gives metadata and then the
\* wrapper's error event, an exception of the LLM stream ends the stream with
\* the error event, and a stream that has not ended is never stuck.
C21_StreamIsWellFormed ==
    /\ [](StreamShape /\ StreamOutcome /\ StreamCanGoOn)
    /\ [][StreamStep]_vars

\* the fetch succeeded at its second attempt, one chunk went out and then the LLM
\* stream raised
C21_Witness ==
    /\ handler.pc = "closed"
    /\ FetchSucceeded
    /\ retry[1].attempts = 2 /\ retry[1].failed = 1
    /\ events = <<StreamEvent("metadata", handler.video_id),
                  StreamEvent("chunk", <<72, 105>>),
                  UnexpectedError>>

====
